---- MODULE Spec2Model ----
(***************************************************************************)
(* ABAC policy engine (src/src/policy-engine.js) over the sql.js database  *)
(* wrapper (src/src/database.js) and the routes that drive it.             *)
(*                                                                         *)
(* JavaScript strings are sequences of one-character strings, so that      *)
(* toLowerCase, trim, split, includes, Number and RegExp are computed.     *)
(***************************************************************************)
EXTENDS Integers, Sequences, FiniteSets, TLC

(* ------------------------------------------------------------------ *)
(* JavaScript values                                                   *)
(* ------------------------------------------------------------------ *)

\* undefined and null are one-element sequences no string equals.
Undefined == <<"undefined">>
Null == <<"null">>
\* Number(x) is <<n>> for the number n and <<>> for NaN.
NaN == <<>>
\* What a condition or a policy evaluates to: TRUE/FALSE as "true"/"false",
\* or the SyntaxError new RegExp raises.
True == "true"
False == "false"
SyntaxError == "SyntaxError"

Bool(b) == IF b THEN True ELSE False

LowerChar(c) ==
  CASE c = "A" -> "a" [] c = "B" -> "b" [] c = "C" -> "c" [] c = "D" -> "d"
    [] c = "E" -> "e" [] c = "F" -> "f" [] c = "G" -> "g" [] c = "H" -> "h"
    [] c = "I" -> "i" [] c = "J" -> "j" [] c = "K" -> "k" [] c = "L" -> "l"
    [] c = "M" -> "m" [] c = "N" -> "n" [] c = "O" -> "o" [] c = "P" -> "p"
    [] c = "Q" -> "q" [] c = "R" -> "r" [] c = "S" -> "s" [] c = "T" -> "t"
    [] c = "U" -> "u" [] c = "V" -> "v" [] c = "W" -> "w" [] c = "X" -> "x"
    [] c = "Y" -> "y" [] c = "Z" -> "z" [] OTHER -> c

\* String.prototype.toLowerCase
ToLowerCase(s) == [i \in 1..Len(s) |-> LowerChar(s[i])]

IsSpace(c) == c \in {" ", "\t", "\n", "\r"}

RECURSIVE TrimStart(_)
TrimStart(s) ==
  IF s # <<>> /\ IsSpace(Head(s)) THEN TrimStart(Tail(s)) ELSE s

RECURSIVE TrimEnd(_)
TrimEnd(s) ==
  IF s # <<>> /\ IsSpace(s[Len(s)]) THEN TrimEnd(SubSeq(s, 1, Len(s) - 1)) ELSE s

\* String.prototype.trim
Trim(s) == TrimEnd(TrimStart(s))

\* String.prototype.includes
Includes(a, b) ==
  \E i \in 0..(Len(a) - Len(b)) : SubSeq(a, i + 1, i + Len(b)) = b

\* String.prototype.split(',') : the pieces between the separators, the
\* empty string giving one empty piece.
RECURSIVE SplitFrom(_, _, _)
SplitFrom(s, sep, piece) ==
  IF s = <<>> THEN <<piece>>
  ELSE IF Head(s) = sep THEN <<piece>> \o SplitFrom(Tail(s), sep, <<>>)
  ELSE SplitFrom(Tail(s), sep, Append(piece, Head(s)))

Split(s, sep) == SplitFrom(s, sep, <<>>)

IsDigit(c) == c \in {"0", "1", "2", "3", "4", "5", "6", "7", "8", "9"}

DigitValue(c) ==
  CASE c = "0" -> 0 [] c = "1" -> 1 [] c = "2" -> 2 [] c = "3" -> 3
    [] c = "4" -> 4 [] c = "5" -> 5 [] c = "6" -> 6 [] c = "7" -> 7
    [] c = "8" -> 8 [] c = "9" -> 9

RECURSIVE DigitsValue(_, _)
DigitsValue(s, acc) ==
  IF s = <<>> THEN acc ELSE DigitsValue(Tail(s), 10 * acc + DigitValue(Head(s)))

AllDigits(s) == s # <<>> /\ \A i \in 1..Len(s) : IsDigit(s[i])

\* Number(x) on the decimal integer literals: surrounding white space is
\* dropped, the empty string is 0, an optional sign, anything else NaN.
Number(s) ==
  LET t == Trim(s) IN
  IF t = <<>> THEN <<0>>
  ELSE IF AllDigits(t) THEN <<DigitsValue(t, 0)>>
  ELSE IF Head(t) = "-" /\ AllDigits(Tail(t)) THEN <<0 - DigitsValue(Tail(t), 0)>>
  ELSE IF Head(t) = "+" /\ AllDigits(Tail(t)) THEN <<DigitsValue(Tail(t), 0)>>
  ELSE NaN

(* ------------------------------------------------------------------ *)
(* new RegExp(b, 'i').test(a) on the patterns built from literal       *)
(* characters, '.', a leading '^', a trailing '$' and the postfix '*'. *)
(* ------------------------------------------------------------------ *)

RECURSIVE ParenDepthOk(_, _)
ParenDepthOk(p, depth) ==
  IF p = <<>> THEN depth = 0
  ELSE IF Head(p) = "(" THEN ParenDepthOk(Tail(p), depth + 1)
  ELSE IF Head(p) = ")" THEN depth > 0 /\ ParenDepthOk(Tail(p), depth - 1)
  ELSE ParenDepthOk(Tail(p), depth)

\* The patterns new RegExp accepts: balanced parentheses, no unterminated
\* character class, no quantifier with nothing to repeat.
RegExpCompiles(p) ==
  /\ ParenDepthOk(p, 0)
  /\ Cardinality({i \in 1..Len(p) : p[i] = "["}) = Cardinality({i \in 1..Len(p) : p[i] = "]"})
  /\ (p # <<>> => Head(p) \notin {"*", "+", "?"})

RECURSIVE MatchHere(_, _)
RECURSIVE MatchStar(_, _, _)
MatchHere(re, text) ==
  IF re = <<>> THEN TRUE
  ELSE IF Len(re) >= 2 /\ re[2] = "*" THEN MatchStar(re[1], SubSeq(re, 3, Len(re)), text)
  ELSE IF re = <<"$">> THEN text = <<>>
  ELSE IF text # <<>> /\ (re[1] = "." \/ re[1] = text[1]) THEN MatchHere(Tail(re), Tail(text))
  ELSE FALSE

MatchStar(c, re, text) ==
  \/ MatchHere(re, text)
  \/ text # <<>> /\ (c = "." \/ c = text[1]) /\ MatchStar(c, re, Tail(text))

RegExpTest(p, a) ==
  LET re == ToLowerCase(p)
      text == ToLowerCase(a) IN
  IF re # <<>> /\ Head(re) = "^" THEN MatchHere(Tail(re), text)
  ELSE \E i \in 1..(Len(text) + 1) : MatchHere(re, SubSeq(text, i, Len(text)))

(* ------------------------------------------------------------------ *)
(* PolicyEngine.operators                                              *)
(* ------------------------------------------------------------------ *)

Op_equals(a, b) == Bool(ToLowerCase(a) = ToLowerCase(b))
Op_not_equals(a, b) == Bool(ToLowerCase(a) # ToLowerCase(b))
Op_contains(a, b) == Bool(Includes(ToLowerCase(a), ToLowerCase(b)))
Op_in(a, b) ==
  LET parts == Split(b, ",")
      list == {ToLowerCase(Trim(parts[i])) : i \in 1..Len(parts)} IN
  Bool(ToLowerCase(a) \in list)
Op_greater_than(a, b) ==
  LET x == Number(a)
      y == Number(b) IN
  Bool(x # NaN /\ y # NaN /\ x[1] > y[1])
Op_less_than(a, b) ==
  LET x == Number(a)
      y == Number(b) IN
  Bool(x # NaN /\ y # NaN /\ x[1] < y[1])
Op_matches(a, b) == IF RegExpCompiles(b) THEN Bool(RegExpTest(b, a)) ELSE SyntaxError

OperatorNames ==
  {"equals", "not_equals", "contains", "in", "greater_than", "less_than", "matches"}

\* Property names every object literal inherits from Object.prototype, the
\* two that are modelled of them.  obj[name] finds them on an object that
\* does not set them itself.
InheritedNames == {"constructor", "toString"}

\* String(obj[name]) of an inherited property: the source text of a built-in
\* function.
InheritedValue(name) ==
  IF name = "constructor" THEN <<"f", "u", "n", "c", "t", "i", "o", "n", " ", "O", "b", "j", "e", "c", "t", "(", ")", " ", "{", " ", "[", "n", "a", "t", "i", "v", "e", " ", "c", "o", "d", "e", "]", " ", "}">>
  ELSE <<"f", "u", "n", "c", "t", "i", "o", "n", " ", "t", "o", "S", "t", "r", "i", "n", "g", "(", ")", " ", "{", " ", "[", "n", "a", "t", "i", "v", "e", " ", "c", "o", "d", "e", "]", " ", "}">>

\* this.operators[condition.operator](a, b).  An inherited name finds a
\* built-in function: Object(a, b) gives a wrapper object and toString(a, b)
\* gives '[object Undefined]', values that every() takes for true.
ApplyOperator(name, a, b) ==
  CASE name \in InheritedNames -> True
    [] name = "equals" -> Op_equals(a, b)
    [] name = "not_equals" -> Op_not_equals(a, b)
    [] name = "contains" -> Op_contains(a, b)
    [] name = "in" -> Op_in(a, b)
    [] name = "greater_than" -> Op_greater_than(a, b)
    [] name = "less_than" -> Op_less_than(a, b)
    [] name = "matches" -> Op_matches(a, b)

(* ------------------------------------------------------------------ *)
(* Bounds                                                              *)
(* ------------------------------------------------------------------ *)

\* Rows the audit log may hold before evaluate requests stop arriving.
MaxAudit == 1
\* Request handlers that may be between their database load and their save.
MaxInFlight == 2

Workers == 1..MaxInFlight

(* ------------------------------------------------------------------ *)
(* Stored rows (schema of src/src/database.js)                         *)
(* ------------------------------------------------------------------ *)

Alice == [id |-> <<"u", "1">>, username |-> <<"a", "l", "i", "c", "e">>, email |-> <<"a", "l", "i", "c", "e", "@", "c", "o", "r", "p", ".", "c", "o", "m">>]
Bob == [id |-> <<"u", "2">>, username |-> <<"b", "o", "b">>, email |-> Null]
GhostUserId == <<"u", "9">>

DesignDoc == [id |-> <<"r", "1">>, name |-> <<"d", "e", "s", "i", "g", "n", "-", "d", "o", "c">>, type |-> <<"d", "o", "c", "u", "m", "e", "n", "t">>]
GhostResourceId == <<"r", "9">>

UserAttributeRows ==
  { [user_id |-> Alice.id, attribute_name |-> "department", attribute_value |-> <<"e", "n", "g", "i", "n", "e", "e", "r", "i", "n", "g">>],
    [user_id |-> Alice.id, attribute_name |-> "clearance_level", attribute_value |-> <<"3">>],
    [user_id |-> Bob.id, attribute_name |-> "department", attribute_value |-> <<"H", "R">>],
    [user_id |-> Bob.id, attribute_name |-> "clearance_level", attribute_value |-> <<"5">>] }

ResourceAttributeRows ==
  { [resource_id |-> DesignDoc.id, attribute_name |-> "department", attribute_value |-> <<"e", "n", "g", "i", "n", "e", "e", "r", "i", "n", "g">>],
    [resource_id |-> DesignDoc.id, attribute_name |-> "classification", attribute_value |-> <<"r", "e", "s", "t", "r", "i", "c", "t", "e", "d">>] }

EnvironmentAttributeRows ==
  { [attribute_name |-> "maintenance_mode", attribute_value |-> <<"f", "a", "l", "s", "e">>] }

\* Policy ids, and for each policy the columns no modelled request changes.
P1 == <<"p", "1">>
P2 == <<"p", "2">>
P3 == <<"p", "3">>
P4 == <<"p", "4">>
P5 == <<"p", "5">>
P6 == <<"p", "6">>
P7 == <<"p", "7">>
PolicyIds == {P1, P2, P3, P4, P5}

PolicyName(id) ==
  CASE id = P1 -> <<"D", "e", "p", "a", "r", "t", "m", "e", "n", "t", " ", "R", "e", "a", "d", " ", "A", "c", "c", "e", "s", "s">>
    [] id = P2 -> <<"R", "e", "s", "t", "r", "i", "c", "t", "e", "d", " ", "D", "o", "c", "u", "m", "e", "n", "t", " ", "P", "r", "o", "t", "e", "c", "t", "i", "o", "n">>
    [] id = P3 -> <<"E", "n", "g", "i", "n", "e", "e", "r", "i", "n", "g", " ", "D", "e", "p", "a", "r", "t", "m", "e", "n", "t", " ", "A", "c", "c", "e", "s", "s">>
    [] id = P4 -> <<"B", "u", "s", "i", "n", "e", "s", "s", " ", "H", "o", "u", "r", "s", " ", "R", "e", "a", "d">>
    [] id = P5 -> <<"C", "o", "r", "p", "o", "r", "a", "t", "e", " ", "M", "a", "i", "l", " ", "A", "c", "c", "e", "s", "s">>
    [] id = P6 -> <<"D", "e", "f", "a", "u", "l", "t", " ", "D", "e", "n", "y">>
    [] id = P7 -> <<"A", "l", "l", "o", "w", " ", "e", "v", "e", "r", "y", "t", "h", "i", "n", "g">>

PolicyEffect(id) == IF id \in {P2, P6} THEN "deny" ELSE "allow"

\* created_at is CURRENT_TIMESTAMP, one second fine: the three seeded
\* policies share theirs, the two added later do not.
PolicyCreatedAt(id) ==
  CASE id \in {P1, P2, P3} -> 1 [] id = P4 -> 2 [] id = P5 -> 3 [] id = P6 -> 4 [] id = P7 -> 5

\* The priorities a policy is stored with.
PolicyPriorities(id) ==
  CASE id = P1 -> {10}
    [] id \in {P2, P3} -> {10, 50}
    [] id = P4 -> {10}
    [] id = P5 -> {30}
    [] id = P6 -> {0}
    [] id = P7 -> {100}

Cond(id, pid, st, name, op, value) ==
  [id |-> id, policy_id |-> pid, subject_type |-> st, attribute_name |-> name,
   operator |-> op, attribute_value |-> value]

PolicyConditionRows ==
  { Cond(1, P1, "user", "department", "equals", <<"$", "{", "r", "e", "s", "o", "u", "r", "c", "e", ".", "d", "e", "p", "a", "r", "t", "m", "e", "n", "t", "}">>),
    Cond(2, P2, "resource", "classification", "equals", <<"r", "e", "s", "t", "r", "i", "c", "t", "e", "d">>),
    Cond(3, P2, "user", "clearance_level", "less_than", <<"4">>),
    Cond(4, P3, "user", "department", "equals", <<"e", "n", "g", "i", "n", "e", "e", "r", "i", "n", "g">>),
    Cond(5, P3, "resource", "department", "equals", <<"E", "n", "g", "i", "n", "e", "e", "r", "i", "n", "g">>),
    Cond(6, P3, "action", "action", "in", <<"r", "e", "a", "d", ",", " ", "u", "p", "d", "a", "t", "e">>),
    Cond(7, P4, "environment", "current_hour", "less_than", <<"1", "8">>),
    Cond(8, P4, "action", "action", "equals", <<"r", "e", "a", "d">>),
    Cond(9, P5, "user", "email", "matches", <<"*", "@", "c", "o", "r", "p", ".", "c", "o", "m">>) }

PolicyRow(id, priority, active) ==
  [id |-> id, name |-> PolicyName(id), effect |-> PolicyEffect(id),
   priority |-> priority, is_active |-> active, created_at |-> PolicyCreatedAt(id)]

\* The policy tables: every policy stored, active or not, at one of its priorities.
PolicyTables ==
  { {PolicyRow(id, prio[id], act[id]) : id \in PolicyIds} :
      prio \in {f \in [PolicyIds -> {10, 30, 50}] : \A id \in PolicyIds : f[id] \in PolicyPriorities(id)},
      act \in [PolicyIds -> {0, 1}] }

Database(policies) ==
  [users |-> {Alice, Bob},
   user_attributes |-> UserAttributeRows,
   resources |-> {DesignDoc},
   resource_attributes |-> ResourceAttributeRows,
   environment_attributes |-> EnvironmentAttributeRows,
   policies |-> policies,
   policy_conditions |-> PolicyConditionRows,
   access_audit_log |-> <<>>]

\* new Date() as getEnvironmentAttributes reads it; current_hour is a
\* number, written as the decimal string String() and Number() make of it.
Clocks ==
  { [current_time |-> <<"2", "0", "2", "4", "-", "0", "3", "-", "0", "4", "T", "0", "9", ":", "3", "0", ":", "0", "0", ".", "0", "0", "0", "Z">>, current_hour |-> <<"9">>, current_day |-> <<"m", "o", "n", "d", "a", "y">>],
    [current_time |-> <<"2", "0", "2", "4", "-", "0", "3", "-", "0", "9", "T", "2", "2", ":", "1", "5", ":", "0", "0", ".", "0", "0", "0", "Z">>, current_hour |-> <<"2", "2">>, current_day |-> <<"s", "a", "t", "u", "r", "d", "a", "y">>] }

(* ------------------------------------------------------------------ *)
(* PolicyEngine: attribute bags and condition evaluation               *)
(* ------------------------------------------------------------------ *)

\* obj[name] on the objects the engine builds: the own property, else the
\* property inherited from Object.prototype, else undefined.
GetProp(obj, name) ==
  IF name \in DOMAIN obj THEN obj[name]
  ELSE IF name \in InheritedNames THEN InheritedValue(name)
  ELSE Undefined

\* The object built from the base columns, each attribute row then set on it.
WithAttributes(base, rows) ==
  LET names == DOMAIN base \cup {r.attribute_name : r \in rows} IN
  [n \in names |->
     IF \E r \in rows : r.attribute_name = n
     THEN (CHOOSE r \in rows : r.attribute_name = n).attribute_value
     ELSE base[n]]

\* getUserAttributes without its 'if (!user) return null': an unknown id
\* gives an object whose columns are undefined.
GetUserAttributesNoNullCheck(d, userId) ==
  WithAttributes([id |-> userId, username |-> Undefined, email |-> Undefined],
                 {r \in d.user_attributes : r.user_id = userId})

\* getUserAttributes: null when no users row has the id.
GetUserAttributes(d, userId) ==
  IF ~ \E u \in d.users : u.id = userId THEN Null
  ELSE LET user == CHOOSE u \in d.users : u.id = userId IN
       WithAttributes([id |-> user.id, username |-> user.username, email |-> user.email],
                      {r \in d.user_attributes : r.user_id = userId})

\* getResourceAttributes: null when no resources row has the id.
GetResourceAttributes(d, resourceId) ==
  IF ~ \E r \in d.resources : r.id = resourceId THEN Null
  ELSE LET resource == CHOOSE r \in d.resources : r.id = resourceId IN
       WithAttributes([id |-> resource.id, name |-> resource.name, type |-> resource.type],
                      {r \in d.resource_attributes : r.resource_id = resourceId})

\* getEnvironmentAttributes: the clock's three values, then the stored rows.
GetEnvironmentAttributes(d, clock) ==
  WithAttributes([current_time |-> clock.current_time, current_hour |-> clock.current_hour,
                  current_day |-> clock.current_day],
                 d.environment_attributes)

\* The callback of conditions.every(...) in evaluateConditions.
EvaluateCondition(condition, userAttrs, resourceAttrs, envAttrs, action) ==
  IF condition.subject_type \notin {"user", "resource", "environment", "action"} THEN False
  ELSE
    LET actualValue ==
          CASE condition.subject_type = "user" -> GetProp(userAttrs, condition.attribute_name)
            [] condition.subject_type = "resource" -> GetProp(resourceAttrs, condition.attribute_name)
            [] condition.subject_type = "environment" -> GetProp(envAttrs, condition.attribute_name)
            [] condition.subject_type = "action" -> action
    IN IF actualValue = Undefined \/ actualValue = Null THEN False
       ELSE IF condition.operator \notin OperatorNames \cup InheritedNames THEN False
       ELSE ApplyOperator(condition.operator, actualValue, condition.attribute_value)

\* Array.prototype.every: stops at the first condition that is false, and a
\* condition that throws ends the call with its error.
RECURSIVE Every(_, _, _, _, _)
Every(conditions, userAttrs, resourceAttrs, envAttrs, action) ==
  IF conditions = <<>> THEN True
  ELSE LET v == EvaluateCondition(Head(conditions), userAttrs, resourceAttrs, envAttrs, action) IN
       IF v = True THEN Every(Tail(conditions), userAttrs, resourceAttrs, envAttrs, action)
       ELSE v

\* evaluateConditions without its test for an empty list: every() of no
\* condition is true.
EvaluateConditionsEmptyMatches(conditions, userAttrs, resourceAttrs, envAttrs, action) ==
  Every(conditions, userAttrs, resourceAttrs, envAttrs, action)

\* evaluateConditions
EvaluateConditions(conditions, userAttrs, resourceAttrs, envAttrs, action) ==
  IF Len(conditions) = 0 THEN False
  ELSE Every(conditions, userAttrs, resourceAttrs, envAttrs, action)

(* ------------------------------------------------------------------ *)
(* The two queries of the engine.  SQL leaves the order of rows the    *)
(* ORDER BY does not separate, and of a SELECT without ORDER BY, to    *)
(* the engine: every order the query admits is a possible result.      *)
(* ------------------------------------------------------------------ *)

\* Every order a set of rows can be returned in.
RECURSIVE Orderings(_)
Orderings(S) ==
  IF S = {} THEN {<<>>}
  ELSE UNION {{<<x>> \o p : p \in Orderings(S \ {x})} : x \in S}

\* The policies of a query that leaves out 'WHERE is_active = 1'.
AllPolicies(d) == d.policies

ActivePolicies(d) == {p \in d.policies : p.is_active = 1}

\* ORDER BY priority DESC, created_at ASC: a row comes next when no remaining
\* row has a higher priority, or the same priority and an earlier created_at.
RECURSIVE OrdersByPriorityThenCreated(_)
OrdersByPriorityThenCreated(rows) ==
  IF rows = {} THEN {<<>>}
  ELSE UNION {{<<x>> \o o : o \in OrdersByPriorityThenCreated(rows \ {x})} :
                x \in {y \in rows :
                         \A z \in rows :
                            /\ z.priority <= y.priority
                            /\ z.priority = y.priority => z.created_at >= y.created_at}}

\* ORDER BY priority DESC: a row comes next when no remaining row has a
\* higher priority.
RECURSIVE OrdersByPriority(_)
OrdersByPriority(rows) ==
  IF rows = {} THEN {<<>>}
  ELSE UNION {{<<x>> \o o : o \in OrdersByPriority(rows \ {x})} :
                x \in {y \in rows : \A z \in rows : z.priority <= y.priority}}

\* SELECT * FROM policies WHERE is_active = 1 ORDER BY priority DESC, created_at ASC
EvaluatePolicyOrders(d) == OrdersByPriorityThenCreated(ActivePolicies(d))

\* SELECT * FROM policies WHERE is_active = 1 ORDER BY priority DESC
CheckAccessPolicyOrders(d) == OrdersByPriority(ActivePolicies(d))

\* SELECT * FROM policy_conditions WHERE policy_id = ?
ConditionLists(d, policyId) ==
  Orderings({c \in d.policy_conditions : c.policy_id = policyId})

\* What evaluateConditions can return for a policy: one value per order its
\* conditions can be read in.
PolicyOutcomes(d, policy, userAttrs, resourceAttrs, envAttrs, action) ==
  {EvaluateConditions(cs, userAttrs, resourceAttrs, envAttrs, action) :
     cs \in ConditionLists(d, policy.id)}

\* For each policy of the list, one of the values its conditions can give.
MatchResults(d, policies, userAttrs, resourceAttrs, envAttrs, action) ==
  LET outcomes == [p \in policies |->
                     PolicyOutcomes(d, p, userAttrs, resourceAttrs, envAttrs, action)] IN
  {m \in [{p.id : p \in policies} -> {True, False, SyntaxError}] :
     \A p \in policies : m[p.id] \in outcomes[p]}

(* ------------------------------------------------------------------ *)
(* PolicyEngine.evaluate and PolicyEngine.checkAccess                  *)
(* ------------------------------------------------------------------ *)

\* let allowingPolicy = null
NoPolicy ==
  [id |-> Null, name |-> <<>>, effect |-> "none", priority |-> 0, is_active |-> 0, created_at |-> 0]

\* A reason string: its fixed text, then the policy name the template appends.
Reason(text, name) == [text |-> text, name |-> name]

\* What a call leaves behind: the database of its handle, whether it returned
\* or threw, the value returned, and the policies whose conditions it evaluated.
Returned(d, result, evaluated) ==
  [db |-> d, outcome |-> "returned", result |-> result, evaluated |-> evaluated]
Raised(d, evaluated) ==
  [db |-> d, outcome |-> "thrown",
   result |-> [allowed |-> FALSE, reason |-> Reason(SyntaxError, <<>>), policyId |-> Null],
   evaluated |-> evaluated]

\* logAndReturn: one row into access_audit_log, then the decision.
LogAndReturn(d, userId, resourceId, action, allowed, policyId, reason, evaluated) ==
  Returned([d EXCEPT !.access_audit_log =
              Append(@, [user_id |-> userId, resource_id |-> resourceId, action |-> action,
                         decision |-> IF allowed THEN "allow" ELSE "deny",
                         policy_id |-> policyId, reason |-> reason])],
           [allowed |-> allowed, reason |-> reason, policyId |-> policyId],
           evaluated)

\* The loop of evaluate returning at the first policy that matches, allow or
\* deny: first-applicable instead of deny-overrides.
RECURSIVE EvaluateLoopFirstMatch(_, _, _, _, _, _, _, _)
EvaluateLoopFirstMatch(d, userId, resourceId, action, policies, matches, allowingPolicy, evaluated) ==
  IF policies = <<>> THEN
    LogAndReturn(d, userId, resourceId, action, FALSE, Null,
                 Reason("No applicable policy found - default deny", <<>>), evaluated)
  ELSE
    LET policy == Head(policies)
        seen == Append(evaluated, policy.id) IN
    IF matches[policy.id] = SyntaxError THEN Raised(d, seen)
    ELSE IF matches[policy.id] = True
    THEN LogAndReturn(d, userId, resourceId, action, policy.effect = "allow", policy.id,
                      Reason(IF policy.effect = "allow" THEN "Allowed by policy: "
                             ELSE "Denied by policy: ", policy.name), seen)
    ELSE EvaluateLoopFirstMatch(d, userId, resourceId, action, Tail(policies), matches,
                                allowingPolicy, seen)

\* The loop of evaluate recording a matching deny and scanning on, the denial
\* returned only after the loop.
RECURSIVE EvaluateLoopDenyAtEnd(_, _, _, _, _, _, _, _)
EvaluateLoopDenyAtEnd(d, userId, resourceId, action, policies, matches, allowingPolicy, evaluated) ==
  IF policies = <<>> THEN
    IF allowingPolicy = NoPolicy
    THEN LogAndReturn(d, userId, resourceId, action, FALSE, Null,
                      Reason("No applicable policy found - default deny", <<>>), evaluated)
    ELSE IF allowingPolicy.effect = "deny"
    THEN LogAndReturn(d, userId, resourceId, action, FALSE, allowingPolicy.id,
                      Reason("Denied by policy: ", allowingPolicy.name), evaluated)
    ELSE LogAndReturn(d, userId, resourceId, action, TRUE, allowingPolicy.id,
                      Reason("Allowed by policy: ", allowingPolicy.name), evaluated)
  ELSE
    LET policy == Head(policies)
        seen == Append(evaluated, policy.id) IN
    IF matches[policy.id] = SyntaxError THEN Raised(d, seen)
    ELSE EvaluateLoopDenyAtEnd(d, userId, resourceId, action, Tail(policies), matches,
                               IF matches[policy.id] = True
                                  /\ (allowingPolicy = NoPolicy
                                      \/ (policy.effect = "deny" /\ allowingPolicy.effect = "allow"))
                               THEN policy ELSE allowingPolicy,
                               seen)

\* The for loop of evaluate and the two returns after it; matches[id] is what
\* evaluateConditions gives for the policy.
RECURSIVE EvaluateLoop(_, _, _, _, _, _, _, _)
EvaluateLoop(d, userId, resourceId, action, policies, matches, allowingPolicy, evaluated) ==
  IF policies = <<>> THEN
    IF allowingPolicy # NoPolicy
    THEN LogAndReturn(d, userId, resourceId, action, TRUE, allowingPolicy.id,
                      Reason("Allowed by policy: ", allowingPolicy.name), evaluated)
    ELSE LogAndReturn(d, userId, resourceId, action, FALSE, Null,
                      Reason("No applicable policy found - default deny", <<>>), evaluated)
  ELSE
    LET policy == Head(policies)
        seen == Append(evaluated, policy.id) IN
    IF matches[policy.id] = SyntaxError THEN Raised(d, seen)
    ELSE IF matches[policy.id] = True /\ policy.effect = "deny"
    THEN LogAndReturn(d, userId, resourceId, action, FALSE, policy.id,
                      Reason("Denied by policy: ", policy.name), seen)
    ELSE EvaluateLoop(d, userId, resourceId, action, Tail(policies), matches,
                      IF matches[policy.id] = True /\ allowingPolicy = NoPolicy
                      THEN policy ELSE allowingPolicy,
                      seen)

\* The runs evaluate can make on the database d: one per result of the two
\* queries.  Each is tagged with the policy order it scanned.
EvaluateRuns(d, userId, resourceId, action, clock) ==
  LET userAttrs == GetUserAttributes(d, userId)
      resourceAttrs == GetResourceAttributes(d, resourceId)
      envAttrs == GetEnvironmentAttributes(d, clock) IN
  IF userAttrs = Null
  THEN {[order |-> <<>>,
         run |-> LogAndReturn(d, userId, resourceId, action, FALSE, Null,
                              Reason("User not found", <<>>), <<>>)]}
  ELSE IF resourceAttrs = Null
  THEN {[order |-> <<>>,
         run |-> LogAndReturn(d, userId, resourceId, action, FALSE, Null,
                              Reason("Resource not found", <<>>), <<>>)]}
  ELSE {[order |-> [i \in 1..Len(o) |-> o[i].id],
         run |-> EvaluateLoop(d, userId, resourceId, action, o, m, NoPolicy, <<>>)] :
          o \in EvaluatePolicyOrders(d),
          m \in MatchResults(d, ActivePolicies(d), userAttrs, resourceAttrs, envAttrs, action)}

\* The for loop of checkAccess and the two returns after it.
RECURSIVE CheckAccessLoop(_, _, _, _, _)
CheckAccessLoop(d, policies, matches, allowingPolicy, evaluated) ==
  IF policies = <<>> THEN
    IF allowingPolicy # NoPolicy
    THEN Returned(d, [allowed |-> TRUE,
                      reason |-> Reason("Allowed by policy: ", allowingPolicy.name),
                      policy |-> allowingPolicy], evaluated)
    ELSE Returned(d, [allowed |-> FALSE,
                      reason |-> Reason("No applicable policy - default deny", <<>>)], evaluated)
  ELSE
    LET policy == Head(policies)
        seen == Append(evaluated, policy.id) IN
    IF matches[policy.id] = SyntaxError THEN Raised(d, seen)
    ELSE IF matches[policy.id] = True /\ policy.effect = "deny"
    THEN Returned(d, [allowed |-> FALSE,
                      reason |-> Reason("Denied by policy: ", policy.name),
                      policy |-> policy], seen)
    ELSE CheckAccessLoop(d, Tail(policies), matches,
                         IF matches[policy.id] = True /\ allowingPolicy = NoPolicy
                         THEN policy ELSE allowingPolicy,
                         seen)

\* The runs checkAccess can make on the database d.
CheckAccessRuns(d, userId, resourceId, action, clock) ==
  LET userAttrs == GetUserAttributes(d, userId)
      resourceAttrs == GetResourceAttributes(d, resourceId)
      envAttrs == GetEnvironmentAttributes(d, clock) IN
  IF userAttrs = Null
  THEN {[order |-> <<>>,
         run |-> Returned(d, [allowed |-> FALSE, reason |-> Reason("User not found", <<>>)], <<>>)]}
  ELSE IF resourceAttrs = Null
  THEN {[order |-> <<>>,
         run |-> Returned(d, [allowed |-> FALSE, reason |-> Reason("Resource not found", <<>>)], <<>>)]}
  ELSE {[order |-> [i \in 1..Len(o) |-> o[i].id],
         run |-> CheckAccessLoop(d, o, m, NoPolicy, <<>>)] :
          o \in CheckAccessPolicyOrders(d),
          m \in MatchResults(d, ActivePolicies(d), userAttrs, resourceAttrs, envAttrs, action)}

\* The id of the policy a decision cites: policyId in evaluate's result, the
\* policy object in checkAccess's, null when there is neither.
CitedPolicy(result) ==
  IF "policyId" \in DOMAIN result THEN result.policyId
  ELSE IF "policy" \in DOMAIN result THEN result.policy.id
  ELSE Null

(* ------------------------------------------------------------------ *)
(* Field tables (schema of src/unnamed/part_002) and their rows        *)
(* ------------------------------------------------------------------ *)

SsnField ==
  [id |-> <<"f", "1">>, resource_id |-> DesignDoc.id, field_name |-> <<"s", "s", "n">>, field_type |-> <<"s", "s", "n">>]
TitleField ==
  [id |-> <<"f", "2">>, resource_id |-> DesignDoc.id, field_name |-> <<"t", "i", "t", "l", "e">>, field_type |-> <<"s", "t", "r", "i", "n", "g">>]
GhostFieldId == <<"f", "9">>

FieldAttributeRows ==
  { [field_id |-> SsnField.id, attribute_name |-> "sensitivity", attribute_value |-> <<"h", "i", "g", "h">>] }

\* Field policy ids.
FAllow == <<"f", "a">>
FDeny == <<"f", "d">>
FRedact == <<"f", "r">>
FMask == <<"f", "m">>
FBare == <<"f", "b">>
FOther == <<"f", "o">>
FBadPattern == <<"f", "x">>
FMaskCustom == <<"f", "c">>
FRedactPlain == <<"f", "p">>
FieldPolicyIds == {FAllow, FDeny, FRedact, FMask, FBare, FOther, FBadPattern}

\* The columns of a field policy that no modelled request changes.
FieldPolicyColumns(id) ==
  CASE id = FAllow ->
         [name |-> <<"R", "e", "a", "d", " ", "A", "c", "c", "e", "s", "s">>, resource_type |-> Null, field_pattern |-> Null,
          effect |-> "allow", mask_value |-> Null]
    [] id = FDeny ->
         [name |-> <<"S", "S", "N", " ", "L", "o", "c", "k", "o", "u", "t">>, resource_type |-> <<"d", "o", "c", "u", "m", "e", "n", "t">>, field_pattern |-> <<"s", "s", "n">>,
          effect |-> "deny", mask_value |-> Null]
    [] id = FRedact ->
         [name |-> <<"R", "e", "d", "a", "c", "t", " ", "S", "e", "n", "s", "i", "t", "i", "v", "e">>, resource_type |-> Null, field_pattern |-> Null,
          effect |-> "redact", mask_value |-> <<"*", "*", "*", "C", "O", "N", "F", "I", "D", "E", "N", "T", "I", "A", "L", "*", "*", "*">>]
    [] id = FMask ->
         [name |-> <<"M", "a", "s", "k", " ", "S", "S", "N">>, resource_type |-> Null, field_pattern |-> <<"s", "s", "n">>,
          effect |-> "mask", mask_value |-> Null]
    [] id = FBare ->
         [name |-> <<"H", "i", "d", "e", " ", "S", "a", "l", "a", "r", "y">>, resource_type |-> Null, field_pattern |-> <<"s", "a", "l", "a", "r", "y">>,
          effect |-> "deny", mask_value |-> Null]
    [] id = FOther ->
         [name |-> <<"E", "m", "p", "l", "o", "y", "e", "e", " ", "R", "e", "c", "o", "r", "d", "s">>, resource_type |-> <<"e", "m", "p", "l", "o", "y", "e", "e", "_", "r", "e", "c", "o", "r", "d">>,
          field_pattern |-> Null, effect |-> "allow", mask_value |-> Null]
    [] id = FBadPattern ->
         [name |-> <<"B", "r", "o", "k", "e", "n", " ", "P", "a", "t", "t", "e", "r", "n">>, resource_type |-> Null, field_pattern |-> <<"(", "s", "s", "n">>,
          effect |-> "allow", mask_value |-> Null]
    [] id = FMaskCustom ->
         [name |-> <<"M", "a", "s", "k", " ", "W", "i", "t", "h", " ", "L", "i", "t", "e", "r", "a", "l">>, resource_type |-> Null, field_pattern |-> Null,
          effect |-> "mask", mask_value |-> <<"X", "X", "X", "-", "X", "X", "-", "X", "X", "X", "X">>]
    [] id = FRedactPlain ->
         [name |-> <<"R", "e", "d", "a", "c", "t", " ", "T", "i", "t", "l", "e">>, resource_type |-> Null, field_pattern |-> <<"t", "i", "t", "l", "e">>,
          effect |-> "redact", mask_value |-> Null]

\* The priorities a field policy is stored with.
FieldPolicyPriorities(id) ==
  CASE id = FAllow -> {20, 60}
    [] id = FDeny -> {10, 50}
    [] id = FRedact -> {30}
    [] id = FMask -> {25}
    [] id = FBare -> {40}
    [] id = FOther -> {70}
    [] id = FBadPattern -> {45}
    [] id = FMaskCustom -> {15, 35}
    [] id = FRedactPlain -> {5}

FieldPolicyRow(id, priority, active) ==
  LET c == FieldPolicyColumns(id) IN
  [id |-> id, name |-> c.name, resource_type |-> c.resource_type,
   field_pattern |-> c.field_pattern, effect |-> c.effect, mask_value |-> c.mask_value,
   priority |-> priority, is_active |-> active]

\* Hide Salary has no condition rows.
FieldPolicyConditionRows ==
  { Cond(1, FAllow, "action", "action", "equals", <<"r", "e", "a", "d">>),
    Cond(2, FDeny, "user", "clearance_level", "less_than", <<"4">>),
    Cond(3, FRedact, "field", "sensitivity", "equals", <<"h", "i", "g", "h">>),
    Cond(4, FMask, "user", "department", "not_equals", <<"h", "r">>),
    Cond(5, FOther, "action", "action", "equals", <<"r", "e", "a", "d">>),
    Cond(6, FBadPattern, "action", "action", "equals", <<"r", "e", "a", "d">>),
    Cond(7, FMaskCustom, "action", "action", "equals", <<"r", "e", "a", "d">>),
    Cond(8, FRedactPlain, "action", "action", "equals", <<"r", "e", "a", "d">>) }

\* The field policy tables: every policy stored at one of its priorities,
\* Broken Pattern active and each other policy active or not.  Read Access
\* and SSN Lockout are the two with a choice of priority.
FieldPolicyTables ==
  { {FieldPolicyRow(id,
                    IF id = FAllow THEN pa
                    ELSE IF id = FDeny THEN pd
                    ELSE CHOOSE p \in FieldPolicyPriorities(id) : TRUE,
                    act[id]) : id \in FieldPolicyIds} :
      pa \in FieldPolicyPriorities(FAllow),
      pd \in FieldPolicyPriorities(FDeny),
      act \in {a \in [FieldPolicyIds -> {0, 1}] : a[FBadPattern] = 1} }

\* The database with the field tables.
FieldDatabase(policies, fieldPolicies) ==
  [users |-> {Alice, Bob},
   user_attributes |-> UserAttributeRows,
   resources |-> {DesignDoc},
   resource_attributes |-> ResourceAttributeRows,
   environment_attributes |-> EnvironmentAttributeRows,
   policies |-> policies,
   policy_conditions |-> PolicyConditionRows,
   access_audit_log |-> <<>>,
   resource_fields |-> {SsnField, TitleField},
   field_attributes |-> FieldAttributeRows,
   field_policies |-> fieldPolicies,
   field_policy_conditions |-> FieldPolicyConditionRows]

(* ------------------------------------------------------------------ *)
(* Field engine (src/unnamed/part_004)                                 *)
(* ------------------------------------------------------------------ *)

\* !value, for the values a column or a property holds
Falsy(v) == v \in {Undefined, Null, <<>>}

\* The switch on condition.operator of evaluateCondition: 'matches' catches
\* the error of new RegExp, any other name is the default case.
FieldApplyOperator(name, a, b) ==
  CASE name = "equals" -> Op_equals(a, b)
    [] name = "not_equals" -> Op_not_equals(a, b)
    [] name = "contains" -> Op_contains(a, b)
    [] name = "in" -> Op_in(a, b)
    [] name = "greater_than" -> Op_greater_than(a, b)
    [] name = "less_than" -> Op_less_than(a, b)
    [] name = "matches" -> IF RegExpCompiles(b) THEN Bool(RegExpTest(b, a)) ELSE False
    [] OTHER -> False

\* evaluateCondition(condition, context)
FieldEvaluateCondition(condition, context) ==
  IF condition.subject_type \notin {"user", "resource", "field", "environment", "action"}
  THEN False
  ELSE
    LET actualValue ==
          CASE condition.subject_type = "user" -> GetProp(context.user, condition.attribute_name)
            [] condition.subject_type = "resource" ->
                 GetProp(context.resource, condition.attribute_name)
            [] condition.subject_type = "field" -> GetProp(context.field, condition.attribute_name)
            [] condition.subject_type = "environment" ->
                 GetProp(context.environment, condition.attribute_name)
            [] condition.subject_type = "action" -> context.action
    IN IF actualValue = Undefined \/ actualValue = Null THEN False
       ELSE FieldApplyOperator(condition.operator, actualValue, condition.value)

\* The conditions column of a policy row, parsed: one object per condition
\* row of the policy.  No condition here throws, so every() does not depend
\* on the order json_group_array lists them in.
FieldConditions(d, policyId) ==
  {[subject_type |-> c.subject_type, attribute_name |-> c.attribute_name,
    operator |-> c.operator, value |-> c.attribute_value] :
     c \in {r \in d.field_policy_conditions : r.policy_id = policyId}}

\* evaluatePolicyConditions(policy, context): a policy without conditions
\* matches before its field_pattern is looked at.
EvaluatePolicyConditions(conditions, policy, context) ==
  IF conditions = {} THEN TRUE
  ELSE IF ~Falsy(policy.field_pattern)
          /\ ~(RegExpCompiles(policy.field_pattern)
               /\ RegExpTest(policy.field_pattern, context.field.name))
  THEN FALSE
  ELSE \A c \in conditions : FieldEvaluateCondition(c, context) = True

\* The rows getFieldPolicies(resourceType) selects.
GetFieldPolicyRows(d, resourceType) ==
  {p \in d.field_policies :
     /\ p.is_active = 1
     /\ Falsy(resourceType) \/ p.resource_type = Null \/ p.resource_type = resourceType}

\* getFieldPolicies(resourceType): ORDER BY fp.priority DESC
GetFieldPolicies(d, resourceType) == OrdersByPriority(GetFieldPolicyRows(d, resourceType))

FieldResult(effect, policyId, maskValue, reason) ==
  [effect |-> effect, policyId |-> policyId, maskValue |-> maskValue, reason |-> reason]

DefaultMask == <<"*", "*", "*", "R", "E", "D", "A", "C", "T", "E", "D", "*", "*", "*">>

\* A starting result that lets the field through when no policy matches.
NoMatchingDeny ==
  FieldResult("allow", Undefined, Undefined, Reason("No matching deny policy", <<>>))

\* The result evaluateFieldAccess starts its loop with.
NoMatchingAllow ==
  FieldResult("deny", Undefined, Undefined, Reason("No matching allow policy", <<>>))

\* The loop of evaluateFieldAccess with a matching allow recorded whatever
\* the result so far, a mask included.
RECURSIVE FieldLoopAllowReplaces(_, _, _, _)
FieldLoopAllowReplaces(d, policies, context, result) ==
  IF policies = <<>> THEN result
  ELSE
    LET policy == Head(policies) IN
    IF ~EvaluatePolicyConditions(FieldConditions(d, policy.id), policy, context)
    THEN FieldLoopAllowReplaces(d, Tail(policies), context, result)
    ELSE IF policy.effect = "deny"
    THEN FieldResult("deny", policy.id, Undefined, Reason("Denied by policy: ", policy.name))
    ELSE IF policy.effect = "redact"
    THEN FieldResult("redact", policy.id,
                     IF Falsy(policy.mask_value) THEN DefaultMask ELSE policy.mask_value,
                     Reason("Redacted by policy: ", policy.name))
    ELSE IF policy.effect = "mask"
    THEN FieldLoopAllowReplaces(d, Tail(policies), context,
                                FieldResult("mask", policy.id, policy.mask_value,
                                            Reason("Masked by policy: ", policy.name)))
    ELSE IF policy.effect = "allow"
    THEN FieldLoopAllowReplaces(d, Tail(policies), context,
                                FieldResult("allow", policy.id, Undefined,
                                            Reason("Allowed by policy: ", policy.name)))
    ELSE FieldLoopAllowReplaces(d, Tail(policies), context, result)

\* The loop of evaluateFieldAccess recording a matching redact and scanning
\* on, as it does for a mask, instead of returning.
RECURSIVE FieldLoopRedactWaits(_, _, _, _)
FieldLoopRedactWaits(d, policies, context, result) ==
  IF policies = <<>> THEN result
  ELSE
    LET policy == Head(policies) IN
    IF ~EvaluatePolicyConditions(FieldConditions(d, policy.id), policy, context)
    THEN FieldLoopRedactWaits(d, Tail(policies), context, result)
    ELSE IF policy.effect = "deny"
    THEN FieldResult("deny", policy.id, Undefined, Reason("Denied by policy: ", policy.name))
    ELSE IF policy.effect = "redact"
    THEN FieldLoopRedactWaits(d, Tail(policies), context,
                              FieldResult("redact", policy.id,
                                          IF Falsy(policy.mask_value) THEN DefaultMask
                                          ELSE policy.mask_value,
                                          Reason("Redacted by policy: ", policy.name)))
    ELSE IF policy.effect = "mask"
    THEN FieldLoopRedactWaits(d, Tail(policies), context,
                              FieldResult("mask", policy.id, policy.mask_value,
                                          Reason("Masked by policy: ", policy.name)))
    ELSE IF policy.effect = "allow" /\ result.effect # "mask"
    THEN FieldLoopRedactWaits(d, Tail(policies), context,
                              FieldResult("allow", policy.id, Undefined,
                                          Reason("Allowed by policy: ", policy.name)))
    ELSE FieldLoopRedactWaits(d, Tail(policies), context, result)

\* The loop of evaluateFieldAccess over the policies in the order of the query.
RECURSIVE FieldLoop(_, _, _, _)
FieldLoop(d, policies, context, result) ==
  IF policies = <<>> THEN result
  ELSE
    LET policy == Head(policies) IN
    IF ~EvaluatePolicyConditions(FieldConditions(d, policy.id), policy, context)
    THEN FieldLoop(d, Tail(policies), context, result)
    ELSE IF policy.effect = "deny"
    THEN FieldResult("deny", policy.id, Undefined, Reason("Denied by policy: ", policy.name))
    ELSE IF policy.effect = "redact"
    THEN FieldResult("redact", policy.id,
                     IF Falsy(policy.mask_value) THEN DefaultMask ELSE policy.mask_value,
                     Reason("Redacted by policy: ", policy.name))
    ELSE IF policy.effect = "mask"
    THEN FieldLoop(d, Tail(policies), context,
           FieldResult("mask", policy.id, policy.mask_value,
                       Reason("Masked by policy: ", policy.name)))
    ELSE IF policy.effect = "allow" /\ result.effect # "mask"
    THEN FieldLoop(d, Tail(policies), context,
           FieldResult("allow", policy.id, Undefined, Reason("Allowed by policy: ", policy.name)))
    ELSE FieldLoop(d, Tail(policies), context, result)

\* {} as the environment argument defaults to
EmptyObject == [n \in {} |-> Undefined]

\* The context evaluateFieldAccess builds once it has found the resource and
\* the field.  The user's attributes are the rows stored under the user id.
FieldContext(d, userId, resource, field, action, environment) ==
  [user |-> WithAttributes(EmptyObject, {a \in d.user_attributes : a.user_id = userId}),
   resource |-> WithAttributes([type |-> resource.type, name |-> resource.name],
                               {a \in d.resource_attributes : a.resource_id = resource.id}),
   field |-> WithAttributes([name |-> field.field_name, type |-> field.field_type],
                            {a \in d.field_attributes : a.field_id = field.id}),
   action |-> action,
   environment |-> environment]

\* evaluateFieldAccess(userId, resourceId, fieldId, action, environment):
\* every result and the order of policies it came from.  The handle of
\* getFieldPolicies reads the file the caller's handle read.
EvaluateFieldAccessRuns(d, userId, resourceId, fieldId, action, environment) ==
  LET resources == {r \in d.resources : r.id = resourceId}
      fields == {f \in d.resource_fields : f.id = fieldId} IN
  IF resources = {}
  THEN {[order |-> <<>>,
         result |-> FieldResult("deny", Undefined, Undefined, Reason("Resource not found", <<>>))]}
  ELSE IF fields = {}
  THEN {[order |-> <<>>,
         result |-> FieldResult("deny", Undefined, Undefined, Reason("Field not found", <<>>))]}
  ELSE
    LET resource == CHOOSE r \in resources : TRUE
        field == CHOOSE f \in fields : TRUE
        context == FieldContext(d, userId, resource, field, action, environment) IN
    {[order |-> policies, result |-> FieldLoop(d, policies, context, NoMatchingAllow)] :
       policies \in GetFieldPolicies(d, resource.type)}

\* The first four characters, slice(0, 4), in the place of the last four.
FirstFour(s) == SubSeq(s, 1, 4)

\* str.slice(-4) of a string of four characters or more
LastFour(s) == SubSeq(s, Len(s) - 3, Len(s))

\* str.indexOf('@'), counted from 0; -1 when there is none
IndexOfAt(s) ==
  IF \E i \in 1..Len(s) : s[i] = "@"
  THEN (CHOOSE i \in 1..Len(s) : s[i] = "@" /\ \A k \in 1..(i - 1) : s[k] # "@") - 1
  ELSE -1

\* str.replace(/[^0-9.-]/g, '')
RECURSIVE KeepNumeric(_)
KeepNumeric(s) ==
  IF s = <<>> THEN <<>>
  ELSE IF IsDigit(Head(s)) \/ Head(s) \in {".", "-"} THEN <<Head(s)>> \o KeepNumeric(Tail(s))
  ELSE KeepNumeric(Tail(s))

\* The digits a string starts with.
RECURSIVE LeadingDigits(_)
LeadingDigits(s) ==
  IF s # <<>> /\ IsDigit(Head(s)) THEN <<Head(s)>> \o LeadingDigits(Tail(s)) ELSE <<>>

\* The range applyMask names for parseFloat(s): NaN, or the text of the range
\* the number falls in.  A number is a sign, digits, and a point with digits,
\* of which the digits before the point decide the range.
SalaryRange(s) ==
  LET negative == s # <<>> /\ Head(s) = "-"
      body == IF negative THEN Tail(s) ELSE s
      whole == LeadingDigits(body)
      rest == SubSeq(body, Len(whole) + 1, Len(body))
      fraction == IF rest # <<>> /\ Head(rest) = "." THEN LeadingDigits(Tail(rest)) ELSE <<>>
      n == IF whole = <<>> THEN 0 ELSE DigitsValue(whole, 0) IN
  IF whole = <<>> /\ fraction = <<>> THEN NaN
  ELSE IF negative \/ n < 50000 THEN <<"<", "5", "0", "k">>
  ELSE IF n < 100000 THEN <<"5", "0", "k", "-", "1", "0", "0", "k">>
  ELSE <<">", "1", "0", "0", "k">>

\* '*'.repeat(n)
Stars(n) == [i \in 1..n |-> "*"]

\* applyMask(value, fieldType, maskPattern), the value a string or null
ApplyMask(value, fieldType, maskPattern) ==
  IF value = Null \/ value = Undefined THEN value
  ELSE IF ~Falsy(maskPattern) THEN maskPattern
  ELSE
    CASE fieldType = <<"s", "s", "n">> ->
           IF Len(value) >= 4 THEN <<"*", "*", "*", "-", "*", "*", "-">> \o LastFour(value) ELSE <<"*", "*", "*", "-", "*", "*", "-", "*", "*", "*", "*">>
      [] fieldType = <<"c", "r", "e", "d", "i", "t", "_", "c", "a", "r", "d">> ->
           IF Len(value) >= 4 THEN <<"*", "*", "*", "*", "-", "*", "*", "*", "*", "-", "*", "*", "*", "*", "-">> \o LastFour(value)
           ELSE <<"*", "*", "*", "*", "-", "*", "*", "*", "*", "-", "*", "*", "*", "*", "-", "*", "*", "*", "*">>
      [] fieldType = <<"p", "h", "o", "n", "e">> ->
           IF Len(value) >= 4 THEN <<"(", "*", "*", "*", ")", " ", "*", "*", "*", "-">> \o LastFour(value) ELSE <<"(", "*", "*", "*", ")", " ", "*", "*", "*", "-", "*", "*", "*", "*">>
      [] fieldType = <<"e", "m", "a", "i", "l">> ->
           IF IndexOfAt(value) > 0 THEN <<"*", "*", "*", "*">> \o SubSeq(value, IndexOfAt(value) + 1, Len(value))
           ELSE <<"*", "*", "*", "*", "@", "*", "*", "*", "*", ".", "*", "*", "*">>
      [] fieldType \in {<<"s", "a", "l", "a", "r", "y">>, <<"c", "u", "r", "r", "e", "n", "c", "y">>} ->
           LET range == SalaryRange(KeepNumeric(value)) IN
           IF range = NaN THEN <<"$", "*", "*", "*", ",", "*", "*", "*">>
           ELSE <<"$", "*", "*", "*", ",", "*", "*", "*", " ", "(">> \o range \o <<")">>
      [] OTHER ->
           IF Len(value) <= 2 THEN <<"*", "*", "*">>
           ELSE <<value[1]>> \o Stars(IF Len(value) - 2 < 5 THEN Len(value) - 2 ELSE 5)
                \o <<value[Len(value)]>>

\* fieldMap of filterResourceData: the field rows of the resource by name
FieldMap(d, resourceId) ==
  LET fields == {f \in d.resource_fields : f.resource_id = resourceId} IN
  [n \in {f.field_name : f \in fields} |-> CHOOSE f \in fields : f.field_name = n]

\* What filterSingleRow sets filtered[fieldName] to for an effect that keeps
\* the field.
FilteredValue(access, value, field) ==
  CASE access.effect = "allow" -> value
    [] access.effect = "mask" -> ApplyMask(value, field.field_type, access.maskValue)
    [] access.effect = "redact" ->
         IF Falsy(access.maskValue) THEN DefaultMask ELSE access.maskValue

\* filterSingleRow(userId, resourceId, row, fieldMap, action, environment): the
\* fields of the filtered row, and the log it is given as _accessControl.
FilterSingleRow(d, userId, resourceId, row, fieldMap, action, environment) ==
  LET known == DOMAIN row \cap DOMAIN fieldMap
      results == [n \in known |->
                    {r.result : r \in EvaluateFieldAccessRuns(d, userId, resourceId,
                                                              fieldMap[n].id, action, environment)}]
  IN {[filtered |->
         [n \in (DOMAIN row \ known) \cup {k \in known : access[k].effect # "deny"} |->
            IF n \in known THEN FilteredValue(access[n], row[n], fieldMap[n]) ELSE row[n]],
       accessControl |-> [n \in known |-> access[n].effect]] :
        access \in {a \in [known -> UNION {results[n] : n \in known}] :
                      \A n \in known : a[n] \in results[n]}}

\* filterResourceData(userId, resourceId, data, action, environment) for data
\* that is one row
FilterResourceDataRuns(d, userId, resourceId, data, action, environment) ==
  FilterSingleRow(d, userId, resourceId, data, FieldMap(d, resourceId), action, environment)

(* ------------------------------------------------------------------ *)
(* Search result filter (src/src/search-service.js)                    *)
(* ------------------------------------------------------------------ *)

\* doc[name] of a search hit
DocProp(doc, name) == IF name \in DOMAIN doc THEN doc[name] ELSE Undefined

\* fieldSensitivity[fieldName] || 'low' for a hit that carries no
\* field_security of its own
FieldSensitivity(fieldName) ==
  IF fieldName \in {<<"c", "o", "n", "f", "i", "d", "e", "n", "t", "i", "a", "l", "_", "n", "o", "t", "e", "s">>, <<"f", "i", "n", "a", "n", "c", "i", "a", "l", "_", "d", "a", "t", "a">>, <<"p", "i", "i", "_", "d", "a", "t", "a">>} THEN <<"h", "i", "g", "h">>
  ELSE IF fieldName = <<"i", "n", "t", "e", "r", "n", "a", "l", "_", "c", "o", "m", "m", "e", "n", "t", "s">> THEN <<"m", "e", "d", "i", "u", "m">>
  ELSE <<"l", "o", "w">>

\* The callback of policy.conditions.every(...): the switch on cond.operator
\* has no case for 'matches'.
SearchEvaluateCondition(cond, context) ==
  IF cond.operator = "matches" THEN False ELSE FieldEvaluateCondition(cond, context)

\* evaluatePolicyConditions(policy, context) of the search service
SearchEvaluatePolicyConditions(conditions, policy, context) ==
  IF conditions = {} THEN TRUE
  ELSE IF ~Falsy(policy.field_pattern)
          /\ ~(RegExpCompiles(policy.field_pattern)
               /\ RegExpTest(policy.field_pattern, context.field.name))
  THEN FALSE
  ELSE \A c \in conditions : SearchEvaluateCondition(c, context) = True

\* The context filterDocumentFields builds for one field of the hit.
SearchContext(d, doc, userId, fieldName, action) ==
  [user |-> WithAttributes(EmptyObject, {a \in d.user_attributes : a.user_id = userId}),
   resource |-> [type |-> IF Falsy(DocProp(doc, <<"t", "y", "p", "e">>)) THEN <<"d", "o", "c", "u", "m", "e", "n", "t">>
                          ELSE DocProp(doc, <<"t", "y", "p", "e">>),
                 department |-> DocProp(doc, <<"d", "e", "p", "a", "r", "t", "m", "e", "n", "t">>),
                 classification |-> DocProp(doc, <<"c", "l", "a", "s", "s", "i", "f", "i", "c", "a", "t", "i", "o", "n">>)],
   field |-> [name |-> fieldName, sensitivity |-> FieldSensitivity(fieldName),
              pii |-> IF fieldName = <<"p", "i", "i", "_", "d", "a", "t", "a">> THEN <<"t", "r", "u", "e">> ELSE <<"f", "a", "l", "s", "e">>],
   action |-> action,
   environment |-> EmptyObject]

\* The loop of filterDocumentFields over the policies for one field.
RECURSIVE SearchLoop(_, _, _, _)
SearchLoop(d, policies, context, state) ==
  IF policies = <<>> THEN state
  ELSE
    LET policy == Head(policies) IN
    IF ~SearchEvaluatePolicyConditions(FieldConditions(d, policy.id), policy, context)
    THEN SearchLoop(d, Tail(policies), context, state)
    ELSE IF policy.effect = "deny" THEN [state EXCEPT !.effect = "deny"]
    ELSE IF policy.effect = "redact"
    THEN [effect |-> "redact",
          maskValue |-> IF Falsy(policy.mask_value) THEN DefaultMask ELSE policy.mask_value]
    ELSE IF policy.effect = "mask"
    THEN SearchLoop(d, Tail(policies), context,
                    [effect |-> "mask", maskValue |-> policy.mask_value])
    ELSE IF policy.effect = "allow" /\ state.effect # "mask"
    THEN SearchLoop(d, Tail(policies), context, [state EXCEPT !.effect = "allow"])
    ELSE SearchLoop(d, Tail(policies), context, state)

\* String(n) of a natural number
RECURSIVE DecimalString(_)
DecimalString(n) ==
  LET digit == <<"0", "1", "2", "3", "4", "5", "6", "7", "8", "9">>[(n % 10) + 1] IN
  IF n < 10 THEN <<digit>> ELSE DecimalString(n \div 10) \o <<digit>>

\* applyMaskToText(text, customMask)
ApplyMaskToText(text, customMask) ==
  IF Falsy(text) THEN text
  ELSE IF ~Falsy(customMask) THEN customMask
  ELSE IF Len(text) <= 20 THEN Stars(Len(text))
  ELSE SubSeq(text, 1, 20) \o <<".", ".", ".", " ", "[", "M", "A", "S", "K", "E", "D", " ", "-", " ">> \o DecimalString(Len(text) - 20) \o <<" ", "c", "h", "a", "r", "s", " ", "h", "i", "d", "d", "e", "n", "]">>

\* The names filterDocumentFields skips.
MetadataFields == {<<"_", "i", "n", "d", "e", "x">>, <<"_", "i", "d">>, <<"_", "s", "c", "o", "r", "e">>, <<"f", "i", "e", "l", "d", "_", "s", "e", "c", "u", "r", "i", "t", "y">>}

\* SELECT ... FROM field_policies fp WHERE fp.is_active = 1 ORDER BY fp.priority DESC
SearchFieldPolicies(d) == OrdersByPriority({p \in d.field_policies : p.is_active = 1})

\* filterDocumentFields(doc, userId, action): the fields of the filtered hit
\* and the map it is given as _accessControl.
FilterDocumentFieldsRuns(d, doc, userId, action) ==
  LET names == DOMAIN doc \ MetadataFields IN
  {LET state == [n \in names |->
                   SearchLoop(d, policies, SearchContext(d, doc, userId, n, action),
                              [effect |-> "deny", maskValue |-> Null])] IN
   [order |-> policies,
    filtered |->
      [n \in {k \in names : state[k].effect # "deny"} |->
         CASE state[n].effect = "allow" -> doc[n]
           [] state[n].effect = "mask" -> ApplyMaskToText(doc[n], state[n].maskValue)
           [] state[n].effect = "redact" ->
                IF Falsy(state[n].maskValue) THEN DefaultMask ELSE state[n].maskValue],
    accessControl |-> [n \in names |-> state[n].effect]] :
     policies \in SearchFieldPolicies(d)}

(* ------------------------------------------------------------------ *)
(* Requests                                                            *)
(* ------------------------------------------------------------------ *)

Job(op, userId, resourceId, action, policyId) ==
  [op |-> op, userId |-> userId, resourceId |-> resourceId, action |-> action,
   policyId |-> policyId]
NoJob == Job("none", <<>>, <<>>, <<>>, <<>>)

\* The (user, resource, action) triples requests carry.
AccessRequests ==
  { <<Alice.id, DesignDoc.id, <<"r", "e", "a", "d">>>>,
    <<Alice.id, DesignDoc.id, <<"d", "e", "l", "e", "t", "e">>>>,
    <<Bob.id, DesignDoc.id, <<"r", "e", "a", "d">>>>,
    <<GhostUserId, DesignDoc.id, <<"r", "e", "a", "d">>>>,
    <<Alice.id, GhostResourceId, <<"r", "e", "a", "d">>>>,
    <<GhostUserId, GhostResourceId, <<"r", "e", "a", "d">>>> }

AccessJobs ==
  {Job(op, r[1], r[2], r[3], <<>>) : op \in {"evaluate", "checkAccess"}, r \in AccessRequests}
ClearAuditJob == Job("clearAudit", <<>>, <<>>, <<>>, <<>>)
Jobs == AccessJobs \cup {ClearAuditJob}

\* The requests that overlap in ConcSpec.
ConcJobs ==
  { Job("evaluate", Alice.id, DesignDoc.id, <<"r", "e", "a", "d">>, <<>>),
    Job("checkAccess", Alice.id, DesignDoc.id, <<"r", "e", "a", "d">>, <<>>),
    Job("togglePolicy", <<>>, <<>>, <<>>, P2),
    ClearAuditJob }

\* A request to the field engine or the search filter.
FieldJob(op, userId, resourceId, fieldId, action, data) ==
  [op |-> op, userId |-> userId, resourceId |-> resourceId, action |-> action,
   policyId |-> <<>>, fieldId |-> fieldId, data |-> data]

\* The (user, resource, field, action) tuples field requests carry.
FieldRequests ==
  { <<Alice.id, DesignDoc.id, SsnField.id, <<"r", "e", "a", "d">>>>,
    <<Alice.id, DesignDoc.id, TitleField.id, <<"r", "e", "a", "d">>>>,
    <<Alice.id, DesignDoc.id, TitleField.id, <<"d", "e", "l", "e", "t", "e">>>>,
    <<Bob.id, DesignDoc.id, SsnField.id, <<"r", "e", "a", "d">>>>,
    <<GhostUserId, DesignDoc.id, SsnField.id, <<"r", "e", "a", "d">>>>,
    <<Alice.id, GhostResourceId, SsnField.id, <<"r", "e", "a", "d">>>>,
    <<Alice.id, DesignDoc.id, GhostFieldId, <<"r", "e", "a", "d">>>> }

\* A data row of the resource: two fields of its schema and one outside it.
DataRow ==
  [n \in {<<"s", "s", "n">>, <<"t", "i", "t", "l", "e">>, <<"n", "o", "t", "e">>} |->
     CASE n = <<"s", "s", "n">> -> <<"1", "2", "3", "-", "4", "5", "-", "6", "7", "8", "9">>
       [] n = <<"t", "i", "t", "l", "e">> -> <<"Q", "3", " ", "p", "l", "a", "n">>
       [] n = <<"n", "o", "t", "e">> -> <<"n", "/", "a">>]

\* A search hit.
SearchHit ==
  [n \in {<<"t", "i", "t", "l", "e">>, <<"t", "y", "p", "e">>, <<"p", "i", "i", "_", "d", "a", "t", "a">>, <<"_", "i", "d">>} |->
     CASE n = <<"t", "i", "t", "l", "e">> -> <<"Q", "3", " ", "p", "l", "a", "n">>
       [] n = <<"t", "y", "p", "e">> -> <<"d", "o", "c", "u", "m", "e", "n", "t">>
       [] n = <<"p", "i", "i", "_", "d", "a", "t", "a">> -> <<"1", "2", "3", "-", "4", "5", "-", "6", "7", "8", "9">>
       [] n = <<"_", "i", "d">> -> <<"d", "1">>]

\* The requests of FieldSpec.
FieldJobs ==
  {FieldJob("evaluateFieldAccess", r[1], r[2], r[3], r[4], <<>>) : r \in FieldRequests}
    \cup {FieldJob("filterResourceData", u, DesignDoc.id, <<>>, <<"r", "e", "a", "d">>, DataRow) :
            u \in {Alice.id, Bob.id}}
    \cup {FieldJob("filterDocumentFields", u, <<>>, <<>>, <<"r", "e", "a", "d">>, SearchHit) :
            u \in {Alice.id, Bob.id}}
    \cup {Job("evaluate", Alice.id, DesignDoc.id, <<"r", "e", "a", "d">>, <<>>)}
    \cup {Job("checkAccess", u, DesignDoc.id, <<"r", "e", "a", "d">>, <<>>) : u \in {Alice.id, Bob.id}}
    \cup {Job("togglePolicy", <<>>, <<>>, <<>>, P2),
          Job("toggleFieldPolicy", <<>>, <<>>, <<>>, FDeny)}

\* The conditions handed to the condition evaluators in CondSpec.
ConditionInputs ==
  {[subject_type |-> st, attribute_name |-> name, operator |-> op, value |-> value] :
     st \in {"user", "resource", "field", "environment", "action", "group"},
     name \in {"department", "nickname", "constructor", "badge"},
     op \in OperatorNames \cup {"starts_with", "toString"},
     value \in {<<"e", "n", "g", "i", "n", "e", "e", "r", "i", "n", "g">>, <<"3">>, <<>>, <<" ">>}}

ConditionJob(engine, condition) ==
  [op |-> "evaluateCondition", engine |-> engine, condition |-> condition,
   userId |-> Alice.id, resourceId |-> DesignDoc.id, action |-> <<"r", "e", "a", "d">>,
   policyId |-> <<>>, fieldId |-> SsnField.id]

(* ------------------------------------------------------------------ *)
(* State                                                               *)
(* ------------------------------------------------------------------ *)

VARIABLES
  file,   \* the database file at DB_PATH
  pc,     \* per handler: "idle", or "loaded" once getDatabase() has read the file
  job,    \* per handler: the request it serves
  db,     \* per handler: the in-memory database of its handle
  last    \* the handler that finished last and what it returned, until the
          \* next request arrives

vars == <<file, pc, job, db, last>>

NoDb == Database({})
NoLast ==
  [op |-> "none", worker |-> 0, job |-> NoJob, db |-> NoDb, clock |-> <<>>,
   order |-> <<>>, evaluated |-> <<>>, outcome |-> "none", result |-> [allowed |-> FALSE]]

Idle ==
  /\ pc = [w \in Workers |-> "idle"]
  /\ job = [w \in Workers |-> NoJob]
  /\ db = [w \in Workers |-> NoDb]
  /\ last = NoLast

\* Every policy table over the fixed users and resource, the audit log empty.
Init ==
  /\ file \in {Database(t) : t \in PolicyTables}
  /\ Idle

\* One table: the seeded policies active, the later two switched off.
ConcInit ==
  /\ file = Database({PolicyRow(P1, 10, 1), PolicyRow(P2, 50, 1), PolicyRow(P3, 10, 1),
                      PolicyRow(P4, 10, 0), PolicyRow(P5, 30, 0)})
  /\ Idle

(* ------------------------------------------------------------------ *)
(* Handlers.  Each awaits getDatabase(), which reads the file into a   *)
(* fresh in-memory database; the rest of the handler runs without      *)
(* awaiting and ends in db.close(), which writes that database back.   *)
(* ------------------------------------------------------------------ *)

\* await getDatabase() of the handler serving request j
GetDatabase(w, j) ==
  /\ pc[w] = "idle"
  /\ j.op = "evaluate" => Len(file.access_audit_log) < MaxAudit
  /\ pc' = [pc EXCEPT ![w] = "loaded"]
  /\ job' = [job EXCEPT ![w] = j]
  /\ db' = [db EXCEPT ![w] = file]
  /\ last' = NoLast
  /\ UNCHANGED file

\* db.close(): saveDatabase(this.db) writes the handle's database to the file
Close(w, d) ==
  /\ file' = d
  /\ pc' = [pc EXCEPT ![w] = "idle"]
  /\ job' = [job EXCEPT ![w] = NoJob]
  /\ db' = [db EXCEPT ![w] = NoDb]

Finished(w, clock, r) ==
  [op |-> job[w].op, worker |-> w, job |-> job[w], db |-> db[w], clock |-> clock,
   order |-> r.order, evaluated |-> r.run.evaluated, outcome |-> r.run.outcome,
   result |-> r.run.result]

\* PolicyEngine.evaluate after its await
Evaluate(w) ==
  /\ pc[w] = "loaded"
  /\ job[w].op = "evaluate"
  /\ \E clock \in Clocks :
       \E r \in EvaluateRuns(db[w], job[w].userId, job[w].resourceId, job[w].action, clock) :
         /\ Close(w, r.run.db)
         /\ last' = Finished(w, clock, r)

\* PolicyEngine.checkAccess after its await
CheckAccess(w) ==
  /\ pc[w] = "loaded"
  /\ job[w].op = "checkAccess"
  /\ \E clock \in Clocks :
       \E r \in CheckAccessRuns(db[w], job[w].userId, job[w].resourceId, job[w].action, clock) :
         /\ Close(w, r.run.db)
         /\ last' = Finished(w, clock, r)

Done(w, d) ==
  [NoLast EXCEPT !.op = job[w].op, !.worker = w, !.job = job[w], !.db = db[w],
                 !.outcome = "returned"]

\* DELETE /api/access/audit without a 'before' parameter
ClearAudit(w) ==
  /\ pc[w] = "loaded"
  /\ job[w].op = "clearAudit"
  /\ Close(w, [db[w] EXCEPT !.access_audit_log = <<>>])
  /\ last' = Done(w, db[w])

\* The rows after the toggle routes' UPDATE: is_active of the policy with the
\* id becomes 0 when it is set and 1 when it is 0.
ToggleActive(rows, policyId) ==
  {IF p.id = policyId THEN [p EXCEPT !.is_active = IF p.is_active # 0 THEN 0 ELSE 1] ELSE p :
     p \in rows}

\* PATCH /api/policies/:id/toggle
TogglePolicy(w) ==
  /\ pc[w] = "loaded"
  /\ job[w].op = "togglePolicy"
  /\ Close(w, [db[w] EXCEPT !.policies = ToggleActive(@, job[w].policyId)])
  /\ last' = Done(w, db[w])

\* Requests served one at a time: a handler runs from its load to its save
\* before the next request arrives.
Next ==
  \/ \E j \in Jobs : GetDatabase(1, j)
  \/ Evaluate(1)
  \/ CheckAccess(1)
  \/ ClearAudit(1)

Spec == Init /\ [][Next]_vars

\* Requests that overlap: up to MaxInFlight handlers between load and save.
ConcNext ==
  \E w \in Workers :
    \/ \E j \in ConcJobs : GetDatabase(w, j)
    \/ Evaluate(w)
    \/ CheckAccess(w)
    \/ ClearAudit(w)
    \/ TogglePolicy(w)

ConcSpec == ConcInit /\ [][ConcNext]_vars

(* ------------------------------------------------------------------ *)
(* The field engine, the search filter and the resource engine over    *)
(* one database, requests served one at a time.                        *)
(* ------------------------------------------------------------------ *)

\* The resource policies of FieldSpec: the deny, one allow, the allow with the
\* invalid pattern and the two policies without conditions, each active or
\* not.
FieldSpecPolicyTables ==
  { {PolicyRow(P1, 10, 0), PolicyRow(P2, 50, act[P2]), PolicyRow(P3, 10, act[P3]),
     PolicyRow(P4, 10, 0), PolicyRow(P5, 30, act[P5]),
     PolicyRow(P6, 0, act[P6]), PolicyRow(P7, 100, act[P7])} :
      act \in [{P2, P3, P5, P6, P7} -> {0, 1}] }

SeedPolicyTable ==
  {PolicyRow(P1, 10, 0), PolicyRow(P2, 50, 1), PolicyRow(P3, 10, 1),
   PolicyRow(P4, 10, 0), PolicyRow(P5, 30, 0)}

SeedFieldPolicyTable ==
  {FieldPolicyRow(FAllow, 20, 1), FieldPolicyRow(FDeny, 50, 1), FieldPolicyRow(FRedact, 30, 0),
   FieldPolicyRow(FMask, 25, 0), FieldPolicyRow(FBare, 40, 0), FieldPolicyRow(FOther, 70, 0),
   FieldPolicyRow(FBadPattern, 45, 1)}

FieldInit ==
  /\ file \in {FieldDatabase(t, SeedFieldPolicyTable) : t \in FieldSpecPolicyTables}
                \cup {FieldDatabase(SeedPolicyTable, ft) : ft \in FieldPolicyTables}
  /\ Idle

FieldFinished(w, order, result) ==
  [NoLast EXCEPT !.op = job[w].op, !.worker = w, !.job = job[w], !.db = db[w],
                 !.order = order, !.outcome = "returned", !.result = result]

\* evaluateFieldAccess after its await.  Each of its handles writes back,
\* when it is closed, the database it read.
EvaluateFieldAccess(w) ==
  /\ pc[w] = "loaded"
  /\ job[w].op = "evaluateFieldAccess"
  /\ \E r \in EvaluateFieldAccessRuns(db[w], job[w].userId, job[w].resourceId, job[w].fieldId,
                                      job[w].action, EmptyObject) :
       /\ Close(w, db[w])
       /\ last' = FieldFinished(w, r.order, r.result)

\* filterResourceData after its await
FilterResourceData(w) ==
  /\ pc[w] = "loaded"
  /\ job[w].op = "filterResourceData"
  /\ \E r \in FilterResourceDataRuns(db[w], job[w].userId, job[w].resourceId, job[w].data,
                                     job[w].action, EmptyObject) :
       /\ Close(w, db[w])
       /\ last' = FieldFinished(w, <<>>, r)

\* filterDocumentFields after its await
FilterDocumentFields(w) ==
  /\ pc[w] = "loaded"
  /\ job[w].op = "filterDocumentFields"
  /\ \E r \in FilterDocumentFieldsRuns(db[w], job[w].data, job[w].userId, job[w].action) :
       /\ Close(w, db[w])
       /\ last' = FieldFinished(w, r.order,
                                [filtered |-> r.filtered, accessControl |-> r.accessControl])

\* PATCH /policies/:policyId/toggle of the cell-level routes
ToggleFieldPolicy(w) ==
  /\ pc[w] = "loaded"
  /\ job[w].op = "toggleFieldPolicy"
  /\ Close(w, [db[w] EXCEPT !.field_policies = ToggleActive(@, job[w].policyId)])
  /\ last' = Done(w, db[w])

FieldNext ==
  \/ \E j \in FieldJobs : GetDatabase(1, j)
  \/ Evaluate(1)
  \/ CheckAccess(1)
  \/ TogglePolicy(1)
  \/ EvaluateFieldAccess(1)
  \/ FilterResourceData(1)
  \/ FilterDocumentFields(1)
  \/ ToggleFieldPolicy(1)

FieldSpec == FieldInit /\ [][FieldNext]_vars

(* ------------------------------------------------------------------ *)
(* Field and resource evaluations overlapping with policy toggles.     *)
(* evaluateFieldAccess awaits twice: getDatabase() for its own handle  *)
(* and getFieldPolicies(), which awaits getDatabase() for a second     *)
(* handle and closes it before it returns.                             *)
(* ------------------------------------------------------------------ *)
FieldConcJobs ==
  { FieldJob("evaluateFieldAccess", Alice.id, DesignDoc.id, SsnField.id, <<"r", "e", "a", "d">>, <<>>),
    Job("checkAccess", Alice.id, DesignDoc.id, <<"r", "e", "a", "d">>, <<>>),
    Job("togglePolicy", <<>>, <<>>, <<>>, P2),
    Job("toggleFieldPolicy", <<>>, <<>>, <<>>, FDeny) }

FieldConcInit ==
  /\ file = FieldDatabase(SeedPolicyTable, SeedFieldPolicyTable)
  /\ Idle

\* evaluateFieldAccess from its first await to its second: the not-found
\* returns, or the call of getFieldPolicies up to the await in it, where the
\* second handle is read from the file.
GetFieldPoliciesDatabase(w) ==
  /\ pc[w] = "loaded"
  /\ job[w].op = "evaluateFieldAccess"
  /\ IF /\ \E r \in db[w].resources : r.id = job[w].resourceId
        /\ \E f \in db[w].resource_fields : f.id = job[w].fieldId
     THEN /\ pc' = [pc EXCEPT ![w] = "getFieldPolicies"]
          /\ job' = [job EXCEPT ![w] = [f \in DOMAIN job[w] \cup {"policiesDb"} |->
                                          IF f = "policiesDb" THEN file ELSE job[w][f]]]
          /\ UNCHANGED <<file, db, last>>
     ELSE \E r \in EvaluateFieldAccessRuns(db[w], job[w].userId, job[w].resourceId,
                                            job[w].fieldId, job[w].action, EmptyObject) :
            /\ Close(w, db[w])
            /\ last' = FieldFinished(w, r.order, r.result)

\* getFieldPolicies after its await: the query, and db.close() in its finally
GetFieldPoliciesClose(w) ==
  /\ pc[w] = "getFieldPolicies"
  /\ file' = job[w].policiesDb
  /\ pc' = [pc EXCEPT ![w] = "policies"]
  /\ UNCHANGED <<job, db, last>>

\* evaluateFieldAccess after getFieldPolicies returned: the loop over the
\* policies the second handle read, in the context the first handle read, and
\* db.close() of the first handle.
EvaluateFieldAccessResume(w) ==
  /\ pc[w] = "policies"
  /\ LET resource == CHOOSE r \in db[w].resources : r.id = job[w].resourceId
         field == CHOOSE f \in db[w].resource_fields : f.id = job[w].fieldId
         context == FieldContext(db[w], job[w].userId, resource, field, job[w].action,
                                 EmptyObject)
     IN \E policies \in GetFieldPolicies(job[w].policiesDb, resource.type) :
          /\ Close(w, db[w])
          /\ last' = FieldFinished(w, policies,
                                   FieldLoop(job[w].policiesDb, policies, context,
                                             NoMatchingAllow))

FieldConcNext ==
  \E w \in Workers :
    \/ \E j \in FieldConcJobs : GetDatabase(w, j)
    \/ GetFieldPoliciesDatabase(w)
    \/ GetFieldPoliciesClose(w)
    \/ EvaluateFieldAccessResume(w)
    \/ CheckAccess(w)
    \/ TogglePolicy(w)
    \/ ToggleFieldPolicy(w)

FieldConcSpec == FieldConcInit /\ [][FieldConcNext]_vars

(* ------------------------------------------------------------------ *)
(* Masking and redaction: the field engine over mask and redact        *)
(* policies, with and without a mask_value, and rows with short and    *)
(* missing values                                                      *)
(* ------------------------------------------------------------------ *)
MaskPolicyIds == {FAllow, FDeny, FRedact, FMask, FMaskCustom, FRedactPlain}

\* Every policy of MaskPolicyIds active or not; Read Access, SSN Lockout and
\* Mask With Literal at either of their priorities.
MaskPolicyTables ==
  { {FieldPolicyRow(id,
                    IF id = FAllow THEN pa
                    ELSE IF id = FDeny THEN pd
                    ELSE IF id = FMaskCustom THEN pm
                    ELSE CHOOSE p \in FieldPolicyPriorities(id) : TRUE,
                    act[id]) : id \in MaskPolicyIds} :
      pa \in FieldPolicyPriorities(FAllow),
      pd \in FieldPolicyPriorities(FDeny),
      pm \in FieldPolicyPriorities(FMaskCustom),
      act \in [MaskPolicyIds -> {0, 1}] }

\* The fields of the resource in MaskSpec: a field of each of four types.
MaskFieldRows ==
  { SsnField, TitleField,
    [id |-> <<"f", "3">>, resource_id |-> DesignDoc.id, field_name |-> <<"e", "m", "a", "i", "l">>,
     field_type |-> <<"e", "m", "a", "i", "l">>],
    [id |-> <<"f", "4">>, resource_id |-> DesignDoc.id, field_name |-> <<"s", "a", "l", "a", "r", "y">>,
     field_type |-> <<"s", "a", "l", "a", "r", "y">>] }

\* Rows handed to filterResourceData: DataRow with every field of the schema
\* set, a row of short values, and the row getFilteredResourceData builds for
\* a row that has no cells yet (null under every field name, and its _row_id).
MaskDataRows ==
  { [n \in DOMAIN DataRow \cup {<<"e", "m", "a", "i", "l">>, <<"s", "a", "l", "a", "r", "y">>} |->
       CASE n = <<"e", "m", "a", "i", "l">> -> <<"a", "l", "@", "c", "o", "r", "p", ".", "c", "o", "m">>
         [] n = <<"s", "a", "l", "a", "r", "y">> -> <<"$", "8", "5", ",", "0", "0", "0">>
         [] OTHER -> DataRow[n]],
    [n \in {<<"s", "s", "n">>, <<"t", "i", "t", "l", "e">>, <<"e", "m", "a", "i", "l">>, <<"s", "a", "l", "a", "r", "y">>} |->
       CASE n = <<"s", "s", "n">> -> <<"7", "8", "9">>
         [] n = <<"t", "i", "t", "l", "e">> -> <<"Q", "3">>
         [] n = <<"e", "m", "a", "i", "l">> -> <<"n", "o", "n", "e">>
         [] n = <<"s", "a", "l", "a", "r", "y">> -> <<>>],
    [n \in {<<"s", "s", "n">>, <<"t", "i", "t", "l", "e">>, <<"e", "m", "a", "i", "l">>, <<"s", "a", "l", "a", "r", "y">>, <<"_", "r", "o", "w", "_", "i", "d">>} |->
       IF n = <<"_", "r", "o", "w", "_", "i", "d">> THEN <<"1">> ELSE Null] }

MaskJobs ==
  {FieldJob("evaluateFieldAccess", u, DesignDoc.id, f, a, <<>>) :
     u \in {Alice.id, Bob.id}, f \in {SsnField.id, TitleField.id}, a \in {<<"r", "e", "a", "d">>}}
    \cup {FieldJob("evaluateFieldAccess", Alice.id, DesignDoc.id, TitleField.id, <<"d", "e", "l", "e", "t", "e">>, <<>>)}
    \cup {FieldJob("filterResourceData", u, DesignDoc.id, <<>>, <<"r", "e", "a", "d">>, row) :
            u \in {Alice.id, Bob.id}, row \in MaskDataRows}

MaskInit ==
  /\ file \in {[FieldDatabase(SeedPolicyTable, ft) EXCEPT !.resource_fields = MaskFieldRows] :
                 ft \in MaskPolicyTables}
  /\ Idle

MaskNext ==
  \/ \E j \in MaskJobs : GetDatabase(1, j)
  \/ EvaluateFieldAccess(1)
  \/ FilterResourceData(1)

MaskSpec == MaskInit /\ [][MaskNext]_vars

(* ------------------------------------------------------------------ *)
(* The condition evaluators as functions of the condition: the         *)
(* attribute bags are those of Alice, the design document and its ssn  *)
(* field, and for the search filter those of the pii_data field of the *)
(* search hit.                                                         *)
(* ------------------------------------------------------------------ *)

CondInit ==
  /\ \E badge \in {<<"7">>, <<>>, <<" ">>} :
       file = [FieldDatabase(SeedPolicyTable, SeedFieldPolicyTable) EXCEPT
                 !.user_attributes = @ \cup {[user_id |-> Alice.id, attribute_name |-> "badge",
                                              attribute_value |-> badge]}]
  /\ pc = [w \in Workers |-> "idle"]
  /\ \E engine \in {"resource", "field", "search"}, c \in ConditionInputs :
       job = [w \in Workers |-> IF w = 1 THEN ConditionJob(engine, c) ELSE NoJob]
  /\ db = [w \in Workers |-> NoDb]
  /\ last = NoLast

ConditionResult(w, value) ==
  [NoLast EXCEPT !.op = job[w].op, !.worker = w, !.job = job[w], !.db = file,
                 !.outcome = IF value = SyntaxError THEN "thrown" ELSE "returned",
                 !.result = value]

\* The context the condition of a job is evaluated in by the field engine.
ConditionContext(w) ==
  FieldContext(file, job[w].userId, DesignDoc, SsnField, job[w].action, EmptyObject)

\* PolicyEngine.evaluateConditions on the one condition of the job
ResourceEvaluateConditions(w) ==
  /\ job[w].op = "evaluateCondition"
  /\ job[w].engine = "resource"
  /\ last = NoLast
  /\ \E clock \in Clocks :
       LET c == job[w].condition IN
       last' = ConditionResult(w,
                 EvaluateConditions(
                   <<Cond(0, <<>>, c.subject_type, c.attribute_name, c.operator, c.value)>>,
                   GetUserAttributes(file, job[w].userId),
                   GetResourceAttributes(file, job[w].resourceId),
                   GetEnvironmentAttributes(file, clock), job[w].action))
  /\ UNCHANGED <<file, pc, job, db>>

\* evaluateCondition of the field engine on the condition of the job
FieldEvaluateConditionCall(w) ==
  /\ job[w].op = "evaluateCondition"
  /\ job[w].engine = "field"
  /\ last = NoLast
  /\ last' = ConditionResult(w, FieldEvaluateCondition(job[w].condition, ConditionContext(w)))
  /\ UNCHANGED <<file, pc, job, db>>

\* The every() callback of the search filter on the condition of the job
SearchEvaluateConditionCall(w) ==
  /\ job[w].op = "evaluateCondition"
  /\ job[w].engine = "search"
  /\ last = NoLast
  /\ last' = ConditionResult(w,
               SearchEvaluateCondition(job[w].condition,
                 SearchContext(file, SearchHit, job[w].userId, <<"p", "i", "i", "_", "d", "a", "t", "a">>, job[w].action)))
  /\ UNCHANGED <<file, pc, job, db>>

CondNext ==
  \/ ResourceEvaluateConditions(1)
  \/ FieldEvaluateConditionCall(1)
  \/ SearchEvaluateConditionCall(1)

CondSpec == CondInit /\ [][CondNext]_vars

(* ------------------------------------------------------------------ *)
(* Properties.  They read `last`: the request that finished last, the  *)
(* database its handle loaded, and what the call did and returned.     *)
(* ------------------------------------------------------------------ *)

UserExists(d, userId) == \E u \in d.users : u.id = userId
ResourceExists(d, resourceId) == \E r \in d.resources : r.id = resourceId

LastIsAccess == last.op \in {"evaluate", "checkAccess"}
LastFound ==
  /\ LastIsAccess
  /\ UserExists(last.db, last.job.userId)
  /\ ResourceExists(last.db, last.job.resourceId)

\* The policy matches the last request: its conditions all hold, in whatever
\* order they are read.
LastMatches(p) ==
  PolicyOutcomes(last.db, p,
                 GetUserAttributes(last.db, last.job.userId),
                 GetResourceAttributes(last.db, last.job.resourceId),
                 GetEnvironmentAttributes(last.db, last.clock),
                 last.job.action) = {True}

LastMatching(effect) ==
  {p \in ActivePolicies(last.db) : p.effect = effect /\ LastMatches(p)}

LastDenied == last.outcome = "returned" /\ last.result.allowed = FALSE
LastAllowed == last.outcome = "returned" /\ last.result.allowed = TRUE

RunsOf(op, d, j, clock) ==
  IF op = "evaluate" THEN EvaluateRuns(d, j.userId, j.resourceId, j.action, clock)
  ELSE CheckAccessRuns(d, j.userId, j.resourceId, j.action, clock)

\* C1: when the user and the resource exist and an active deny policy and an
\* active allow policy both match, evaluate and checkAccess return
\* allowed = false, whatever the priorities.
C1_DenyOverrides ==
  (LastFound /\ LastMatching("deny") # {} /\ LastMatching("allow") # {}) => LastDenied

NoApplicableTexts ==
  {"No applicable policy found - default deny", "No applicable policy - default deny"}

\* C2: when the user and the resource exist and no active policy matches,
\* evaluate and checkAccess return allowed = false, cite no policy and give
\* the reason that no applicable policy was found.
C2_DefaultDeny ==
  (LastFound /\ \A p \in ActivePolicies(last.db) : ~ LastMatches(p))
    => /\ LastDenied
       /\ CitedPolicy(last.result) = Null
       /\ last.result.reason.text \in NoApplicableTexts

\* The priorities the allow policies are moved to: below, equal to, between
\* and above the priorities the deny policy takes.
AltPriorities == {5, 10, 30, 50, 70}

ActiveAllowIds(d) == {p.id : p \in {q \in ActivePolicies(d) : q.effect = "allow"}}

Reprioritized(d, f) ==
  [d EXCEPT !.policies =
     {IF p.id \in DOMAIN f THEN [p EXCEPT !.priority = f[p.id]] ELSE p : p \in d.policies}]

\* What the call can return on the database d when the conditions of its
\* policies evaluate as one of ms.  The conditions do not read priorities, so
\* ms is computed once for all the databases that differ in priorities only.
DecisionsWith(op, d, j, ms) ==
  IF op = "evaluate"
  THEN {EvaluateLoop(d, j.userId, j.resourceId, j.action, o, m, NoPolicy, <<>>) :
          o \in EvaluatePolicyOrders(d), m \in ms}
  ELSE {CheckAccessLoop(d, o, m, NoPolicy, <<>>) :
          o \in CheckAccessPolicyOrders(d), m \in ms}

\* C3: if a request is denied, it is not allowed on the database that differs
\* only in the priorities of allow policies: no run of the same call on any
\* such database returns allowed = true.
C3_AllowPrioritiesNeverLiftDenial ==
  (LastFound /\ LastDenied) =>
    \A ms \in {{m : m \in MatchResults(last.db, ActivePolicies(last.db),
                                       GetUserAttributes(last.db, last.job.userId),
                                       GetResourceAttributes(last.db, last.job.resourceId),
                                       GetEnvironmentAttributes(last.db, last.clock),
                                       last.job.action)}} :
      \A f \in [ActiveAllowIds(last.db) -> AltPriorities] :
        \A r \in DecisionsWith(last.op, Reprioritized(last.db, f), last.job, ms) :
          ~ (r.outcome = "returned" /\ r.result.allowed = TRUE)

\* C3 witness: a request denied by a policy while a matching allow policy has
\* a higher priority than every matching deny policy.
C3_Witness ==
  /\ LastFound /\ LastDenied
  /\ CitedPolicy(last.result) = P2
  /\ \E a \in LastMatching("allow") : \A x \in LastMatching("deny") : a.priority > x.priority

\* The first policy of the scanned order that is a matching allow policy.
FirstMatchingAllow ==
  LET ids == {p.id : p \in LastMatching("allow")}
      i == CHOOSE k \in 1..Len(last.order) :
             /\ last.order[k] \in ids
             /\ \A n \in 1..(k - 1) : last.order[n] \notin ids
  IN last.order[i]

\* C4: in evaluate, when an active allow policy matches and no active deny
\* policy does, the result is allowed = true and cites the first matching
\* allow policy of the priority-descending order, which no matching allow
\* policy outranks.
C4_FirstAllowCited ==
  (last.op = "evaluate" /\ LastFound /\ LastMatching("allow") # {} /\ LastMatching("deny") = {})
    => /\ LastAllowed
       /\ last.result.policyId = FirstMatchingAllow
       /\ \A p \in LastMatching("allow"), q \in LastMatching("allow") :
            p.id = last.result.policyId => q.priority <= p.priority

\* Scenario A: Alice (department engineering) asks for the design document
\* (department engineering) while the only active policy is P1, allow at
\* priority 10, its one condition written as in the seed data and the
\* documentation: user.department equals ${resource.department}.
ScenarioA ==
  /\ LastIsAccess
  /\ last.job.userId = Alice.id /\ last.job.resourceId = DesignDoc.id
  /\ ActivePolicies(last.db) = {PolicyRow(P1, 10, 1)}
  /\ GetProp(GetUserAttributes(last.db, Alice.id), "department") = <<"e", "n", "g", "i", "n", "e", "e", "r", "i", "n", "g">>
  /\ GetProp(GetResourceAttributes(last.db, DesignDoc.id), "department") = <<"e", "n", "g", "i", "n", "e", "e", "r", "i", "n", "g">>

\* C5: in Scenario A the resource-level evaluation returns allowed = true,
\* citing P1.
C5_ScenarioA ==
  ScenarioA => (LastAllowed /\ CitedPolicy(last.result) = P1)

PolicyById(d, id) == CHOOSE p \in d.policies : p.id = id

OtherOp(op) == IF op = "evaluate" THEN "checkAccess" ELSE "evaluate"

\* C7: evaluate and checkAccess compute the same decision: on the database,
\* request and clock of a call that returned, the other call returns the same
\* allowed verdict and cites the same policy.
C7_SameDecision ==
  (LastIsAccess /\ last.outcome = "returned") =>
    \A r \in RunsOf(OtherOp(last.op), last.db, last.job, last.clock) :
      /\ r.run.outcome = "returned"
      /\ r.run.result.allowed = last.result.allowed
      /\ CitedPolicy(r.run.result) = CitedPolicy(last.result)

\* C8: a checkAccess call leaves the stored data, the audit log and every
\* user, resource, attribute and policy row, as it was.
C8_CheckAccessLeavesStoreUnchanged ==
  [][\A w \in Workers : CheckAccess(w) => file' = file]_vars

\* The audit row of a decision.
AuditRowOf(l) ==
  [user_id |-> l.job.userId, resource_id |-> l.job.resourceId, action |-> l.job.action,
   decision |-> IF l.result.allowed THEN "allow" ELSE "deny",
   policy_id |-> l.result.policyId, reason |-> l.result.reason]

\* C9: an evaluate call that returns appends exactly one row to the stored
\* audit log, and the row carries the user, resource, action, decision and
\* policy id of the decision returned.
C9_EvaluateAppendsOneRow ==
  [][\A w \in Workers :
       (Evaluate(w) /\ last'.outcome = "returned")
         => file'.access_audit_log = Append(file.access_audit_log, AuditRowOf(last'))]_vars

\* C10: when the user id or the resource id does not exist, evaluate and
\* checkAccess return allowed = false with the 'not found' reason of the one
\* that is missing, evaluate no policy and raise no error.
C10_NotFound ==
  (LastIsAccess /\ ~ LastFound) =>
    /\ LastDenied
    /\ last.result.reason.text =
         (IF ~ UserExists(last.db, last.job.userId) THEN "User not found" ELSE "Resource not found")
    /\ CitedPolicy(last.result) = Null
    /\ last.evaluated = <<>>

\* C10 witness: an unknown user, and an unknown resource, each asked for
\* while policies are active, the one with the invalid pattern among them.
C10_Witness ==
  /\ LastIsAccess /\ ~ LastFound /\ LastDenied
  /\ PolicyRow(P5, 30, 1) \in ActivePolicies(last.db)
  /\ PolicyRow(P2, 50, 1) \in ActivePolicies(last.db)
  /\ last.result.reason.text = "User not found"

(* ------------------------------------------------------------------ *)
(* Properties of the field engine and of the condition evaluators      *)
(* ------------------------------------------------------------------ *)

FieldExists(d, fieldId) == \E f \in d.resource_fields : f.id = fieldId

LastIsFieldAccess == last.op = "evaluateFieldAccess"

NotFoundTexts == {"User not found", "Resource not found", "Field not found"}

\* C11: evaluateFieldAccess called with a user id, a resource id or a field
\* id that is not stored returns effect deny with a 'not found' reason,
\* whatever field policies are stored.
C11_UnknownSubjectDenied ==
  (/\ LastIsFieldAccess
   /\ \/ ~UserExists(last.db, last.job.userId)
      \/ ~ResourceExists(last.db, last.job.resourceId)
      \/ ~FieldExists(last.db, last.job.fieldId))
    => /\ last.outcome = "returned"
       /\ last.result.effect = "deny"
       /\ last.result.reason.text \in NotFoundTexts

LastIsCondition == last.op = "evaluateCondition"

\* The subject types whose conditions read an attribute bag, per evaluator.
BagSubjects(engine) ==
  IF engine = "resource" THEN {"user", "resource", "environment"}
  ELSE {"user", "resource", "field", "environment"}

\* The names the bag a condition of job j reads holds as its own.
BagNames(j) ==
  LET st == j.condition.subject_type IN
  IF j.engine = "resource"
  THEN CASE st = "user" -> DOMAIN GetUserAttributes(file, j.userId)
         [] st = "resource" -> DOMAIN GetResourceAttributes(file, j.resourceId)
         [] st = "environment" -> DOMAIN GetEnvironmentAttributes(file, CHOOSE c \in Clocks : TRUE)
  ELSE IF j.engine = "field"
  THEN DOMAIN FieldContext(file, j.userId, DesignDoc, SsnField, j.action, EmptyObject)[st]
  ELSE DOMAIN SearchContext(file, SearchHit, j.userId, <<"p", "i", "i", "_", "d", "a", "t", "a">>, j.action)[st]

\* C12: in both engines a condition whose attribute is absent from the
\* context evaluates false, whatever its operator, and raises no error.
C12_AbsentAttributeIsFalse ==
  (/\ LastIsCondition
   /\ last.job.condition.subject_type \in BagSubjects(last.job.engine)
   /\ last.job.condition.attribute_name \notin BagNames(last.job))
    => /\ last.outcome = "returned"
       /\ last.result = False

\* The resource policies of d with a 'matches' condition whose expected value
\* is not a valid pattern.
InvalidPatternPolicies(d) ==
  {c.policy_id : c \in {r \in d.policy_conditions :
                          r.operator = "matches" /\ ~RegExpCompiles(r.attribute_value)}}

\* The field policies of d with such a condition or with a field_pattern that
\* is not a valid pattern.
InvalidPatternFieldPolicies(d) ==
  {c.policy_id : c \in {r \in d.field_policy_conditions :
                          r.operator = "matches" /\ ~RegExpCompiles(r.attribute_value)}}
    \cup {p.id : p \in {q \in d.field_policies :
                          ~Falsy(q.field_pattern) /\ ~RegExpCompiles(q.field_pattern)}}

\* C13: evaluate, checkAccess and evaluateFieldAccess return a decision
\* whatever invalid patterns the stored policies hold, and the decision does
\* not come from a policy whose pattern is invalid.
C13_InvalidPatternsNeverAbort ==
  /\ LastIsAccess =>
       /\ last.outcome = "returned"
       /\ CitedPolicy(last.result) \notin InvalidPatternPolicies(last.db)
  /\ LastIsFieldAccess =>
       /\ last.outcome = "returned"
       /\ last.result.policyId \notin InvalidPatternFieldPolicies(last.db)

\* The subject types an evaluator has a case for.
SupportedSubjects(engine) ==
  IF engine = "resource" THEN {"user", "resource", "environment", "action"}
  ELSE {"user", "resource", "field", "environment", "action"}

SubjectAttributes(d, userId) == {a \in d.user_attributes : a.user_id = userId}
WithoutAttribute(d, a) == [d EXCEPT !.user_attributes = @ \ {a}]

\* Allow < Mask < Redact < Deny
Strength(effect) ==
  CASE effect = "allow" -> 1 [] effect = "mask" -> 2 [] effect = "redact" -> 3
    [] effect = "deny" -> 4

\* C15: removing one attribute of the requesting user never turns a denied
\* resource decision into an allowed one, and never makes the effect on a
\* field weaker in the order Allow < Mask < Redact < Deny.
C15_RemovingAttributeNeverWeakens ==
  /\ (LastIsAccess /\ LastDenied) =>
       \A a \in SubjectAttributes(last.db, last.job.userId) :
         \A r \in {x : x \in RunsOf(last.op, WithoutAttribute(last.db, a), last.job, last.clock)} :
           ~(r.run.outcome = "returned" /\ r.run.result.allowed)
  /\ LastIsFieldAccess =>
       \A a \in SubjectAttributes(last.db, last.job.userId) :
         \A r \in EvaluateFieldAccessRuns(WithoutAttribute(last.db, a), last.job.userId,
                                          last.job.resourceId, last.job.fieldId,
                                          last.job.action, EmptyObject) :
           Strength(r.result.effect) >= Strength(last.result.effect)

\* The last call was evaluateFieldAccess for a resource and a field that exist.
LastFieldFound ==
  /\ LastIsFieldAccess
  /\ ResourceExists(last.db, last.job.resourceId)
  /\ FieldExists(last.db, last.job.fieldId)

LastResource == CHOOSE r \in last.db.resources : r.id = last.job.resourceId
LastField == CHOOSE f \in last.db.resource_fields : f.id = last.job.fieldId

\* The context the last evaluateFieldAccess evaluated its policies in.
LastFieldContext ==
  FieldContext(last.db, last.job.userId, LastResource, LastField, last.job.action, EmptyObject)

\* Policy p of the last call matched its context.
FieldPolicyMatches(p) ==
  EvaluatePolicyConditions(FieldConditions(last.db, p.id), p, LastFieldContext)

\* The field_pattern of p is set and the name does not match it.
PatternMisses(p, name) ==
  /\ ~Falsy(p.field_pattern)
  /\ ~(RegExpCompiles(p.field_pattern) /\ RegExpTest(p.field_pattern, name))

\* C16: a field policy with a field_pattern does not match a field whose name
\* the pattern does not match, and is not the policy the result comes from;
\* a policy without conditions is no exception.
C16_FieldPatternScopes ==
  LastFieldFound =>
    \A p \in last.db.field_policies :
      PatternMisses(p, LastField.field_name) =>
        /\ ~FieldPolicyMatches(p)
        /\ last.result.policyId # p.id

\* The resource_type of p is set and is not the given type.
TypeMisses(p, type) == p.resource_type # Null /\ p.resource_type # type

\* The database without the field policies whose resource_type misses the type.
WithoutOtherTypes(d, type) ==
  [d EXCEPT !.field_policies = {p \in @ : ~TypeMisses(p, type)}]

\* The type filterDocumentFields takes a search hit to have.
HitType(doc) ==
  IF Falsy(DocProp(doc, <<"t", "y", "p", "e">>)) THEN <<"d", "o", "c", "u", "m", "e", "n", "t">> ELSE DocProp(doc, <<"t", "y", "p", "e">>)

\* C17: a field policy with a resource_type is never the policy a result of
\* evaluateFieldAccess comes from when the resource has another type, and
\* filterDocumentFields gives each field of a hit the effect it gives with the
\* policies of other resource types removed.
C17_ResourceTypeScopes ==
  /\ LastFieldFound =>
       \A p \in last.db.field_policies :
         TypeMisses(p, LastResource.type) => last.result.policyId # p.id
  /\ last.op = "filterDocumentFields" =>
       \E r \in FilterDocumentFieldsRuns(WithoutOtherTypes(last.db, HitType(last.job.data)),
                                         last.job.data, last.job.userId, last.job.action) :
         /\ r.accessControl = last.result.accessControl
         /\ r.filtered = last.result.filtered

\* The database with every policy deleted whose is_active flag is 0.
WithoutInactive(d) ==
  [d EXCEPT !.policies = {p \in @ : p.is_active # 0},
            !.field_policies = {p \in @ : p.is_active # 0}]

\* What the call of request j can return on database d.
Outcomes(op, d, j, clock) ==
  IF op = "evaluateFieldAccess"
  THEN {[outcome |-> "returned", result |-> r.result] :
          r \in EvaluateFieldAccessRuns(d, j.userId, j.resourceId, j.fieldId, j.action,
                                        EmptyObject)}
  ELSE {[outcome |-> r.run.outcome, result |-> r.run.result] : r \in RunsOf(op, d, j, clock)}

\* The policy a denial of the last call names, of either engine.
DenyingPolicy(o) ==
  IF "effect" \in DOMAIN o.result
  THEN IF o.result.effect = "deny" THEN o.result.policyId ELSE Undefined
  ELSE IF o.outcome = "returned" /\ ~o.result.allowed THEN CitedPolicy(o.result)
  ELSE Undefined

\* The database with the policy of that id toggled, in the table it is in.
Toggled(d, policyId) ==
  [d EXCEPT !.policies = ToggleActive(@, policyId),
            !.field_policies = ToggleActive(@, policyId)]

\* C18: evaluate, checkAccess and evaluateFieldAccess return what they return
\* with every inactive policy deleted; when the result is the denial of a
\* policy, the call with that policy toggled does not return its denial, and
\* with the policy toggled back it returns what it did.
C18_InactivePoliciesHaveNoEffect ==
  (LastIsAccess \/ LastIsFieldAccess) =>
    LET now == {o : o \in Outcomes(last.op, last.db, last.job, last.clock)}
        denying == DenyingPolicy([outcome |-> last.outcome, result |-> last.result]) IN
    /\ [outcome |-> last.outcome, result |-> last.result] \in now
    /\ now = Outcomes(last.op, WithoutInactive(last.db), last.job, last.clock)
    /\ denying \notin {Undefined, Null} =>
         /\ \A o \in Outcomes(last.op, Toggled(last.db, denying), last.job, last.clock) :
              DenyingPolicy(o) # denying
         /\ now = Outcomes(last.op, Toggled(Toggled(last.db, denying), denying),
                           last.job, last.clock)

\* A request is allowed while a deny policy that matches it is inactive: with
\* the policy toggled the call returns its denial.
C18_Witness ==
  /\ LastIsAccess
  /\ LastAllowed
  /\ \E p \in last.db.policies :
       /\ p.is_active = 0
       /\ p.effect = "deny"
       /\ \A o \in Outcomes(last.op, Toggled(last.db, p.id), last.job, last.clock) :
            DenyingPolicy(o) = p.id

\* No active field policy that applies to the type of the resource matches
\* the request of the user for the field.
NoFieldPolicyMatches(d, userId, resource, field, action) ==
  \A p \in GetFieldPolicyRows(d, resource.type) :
    ~EvaluatePolicyConditions(FieldConditions(d, p.id), p,
                              FieldContext(d, userId, resource, field, action, EmptyObject))

\* The fields of the row of the last filterResourceData that the schema of
\* the resource defines.
LastRowFields ==
  {f \in last.db.resource_fields :
     f.resource_id = last.job.resourceId /\ f.field_name \in DOMAIN last.job.data}

\* C19: when the resource and the field exist and no applicable active field
\* policy matches, evaluateFieldAccess returns effect deny, and
\* filterResourceData leaves the value of such a field out of the filtered
\* row and labels the field 'deny' in _accessControl.
C19_FieldDefaultDeny ==
  /\ (/\ LastFieldFound
      /\ NoFieldPolicyMatches(last.db, last.job.userId, LastResource, LastField, last.job.action))
       => /\ last.outcome = "returned"
          /\ last.result.effect = "deny"
          /\ last.result.policyId = Undefined
  /\ (last.op = "filterResourceData" /\ ResourceExists(last.db, last.job.resourceId)) =>
       \A f \in LastRowFields :
         NoFieldPolicyMatches(last.db, last.job.userId, LastResource, f, last.job.action) =>
           /\ f.field_name \notin DOMAIN last.result.filtered
           /\ last.result.accessControl[f.field_name] = "deny"

\* filterResourceData has filtered a row of which one field no policy matched,
\* while active policies were stored that matched another user or field.
C19_Witness ==
  /\ last.op = "filterResourceData"
  /\ ResourceExists(last.db, last.job.resourceId)
  /\ \E p \in last.db.field_policies : p.is_active = 1 /\ p.id # FBadPattern
  /\ \E f \in LastRowFields :
       /\ NoFieldPolicyMatches(last.db, last.job.userId, LastResource, f, last.job.action)
       /\ f.field_name \notin DOMAIN last.result.filtered
       /\ last.result.accessControl[f.field_name] = "deny"

\* The active deny policies that apply to the resource of the last
\* evaluateFieldAccess and match its context.
MatchingFieldDenies ==
  {p \in GetFieldPolicyRows(last.db, LastResource.type) :
     p.effect = "deny" /\ FieldPolicyMatches(p)}

\* C20: evaluateFieldAccess returns effect deny whenever an applicable active
\* deny policy matches the context, whatever allow, mask and redact policies
\* match as well and whatever the priorities.
C20_FieldDenyWins ==
  (LastFieldFound /\ MatchingFieldDenies # {}) =>
    /\ last.outcome = "returned"
    /\ last.result.effect = "deny"

(* ------------------------------------------------------------------ *)
(* Redaction and masking                                               *)
(* ------------------------------------------------------------------ *)

\* Policy p matches the field in the context of the last call.
MatchesFor(p, field) ==
  EvaluatePolicyConditions(FieldConditions(last.db, p.id), p,
                           FieldContext(last.db, last.job.userId, LastResource, field,
                                        last.job.action, EmptyObject))

\* The literal a redact policy stands for.
RedactLiteral(p) == IF Falsy(p.mask_value) THEN DefaultMask ELSE p.mask_value

\* The redact policies of the order that match the field with no matching
\* deny policy before them.
TerminalRedacts(order, field) ==
  {order[i] : i \in {k \in 1..Len(order) :
                       /\ order[k].effect = "redact"
                       /\ MatchesFor(order[k], field)
                       /\ \A h \in 1..(k - 1) :
                            ~(order[h].effect = "deny" /\ MatchesFor(order[h], field))}}

LastIsFilter == last.op = "filterResourceData"

LastFieldMap == FieldMap(last.db, last.job.resourceId)

MatchingWith(effects) ==
  {last.order[i] : i \in {k \in 1..Len(last.order) :
                            /\ last.order[k].effect \in effects
                            /\ MatchesFor(last.order[k], LastField)}}

\* C22: when a mask policy matches and no deny or redact policy does,
\* evaluateFieldAccess returns mask, however many allow policies match and
\* whether their priorities are above or below the mask policy's.
C22_MaskSticks ==
  (LastFieldFound /\ MatchingWith({"mask"}) # {} /\ MatchingWith({"deny", "redact"}) = {}) =>
    last.result.effect = "mask"

\* A mask returned with a matching allow policy above every matching mask
\* policy, or below every one.
C22_Witness ==
  /\ LastFieldFound
  /\ last.result.effect = "mask"
  /\ MatchingWith({"deny", "redact"}) = {}
  /\ \E a \in MatchingWith({"allow"}) :
        \/ \A m \in MatchingWith({"mask"}) : a.priority < m.priority
        \/ \A m \in MatchingWith({"mask"}) : a.priority > m.priority

\* The results evaluateFieldAccess can give, in the last filterResourceData,
\* for the field of the schema named n.
FieldResultsFor(n) ==
  {r.result : r \in EvaluateFieldAccessRuns(last.db, last.job.userId, last.job.resourceId,
                                             LastFieldMap[n].id, last.job.action, EmptyObject)}

\* The field named n of the last filtered row came out masked by a policy
\* that has no mask_value.
MaskedByType(n) ==
  /\ last.result.accessControl[n] = "mask"
  /\ \A r \in FieldResultsFor(n) : Falsy(r.maskValue)

IsText(v) == v \notin {Null, Undefined}

MaskedByLiteral(n) ==
  /\ last.result.accessControl[n] = "mask"
  /\ \A r \in FieldResultsFor(n) : ~Falsy(r.maskValue)

\* C24: a field whose effect is mask, the policy with a non-empty mask_value,
\* is filtered to exactly that literal, whatever the type of the field and
\* whatever the raw value.
C24_CustomMaskPrecedence ==
  LastIsFilter =>
    \A n \in DOMAIN last.result.accessControl :
      MaskedByLiteral(n) =>
        /\ n \in DOMAIN last.result.filtered
        /\ \A r \in FieldResultsFor(n) : last.result.filtered[n] = r.maskValue

\* C25: a field name of a row handed to filterResourceData carries the raw
\* value in the filtered row only if the effect evaluated for that field is
\* allow; under every other outcome the name is absent or carries another
\* value.
C25_NoRawValueWithoutAllow ==
  LastIsFilter =>
    \A n \in DOMAIN last.job.data :
      (n \in DOMAIN last.result.filtered /\ last.result.filtered[n] = last.job.data[n]) =>
        /\ n \in DOMAIN last.result.accessControl
        /\ last.result.accessControl[n] = "allow"

\* The policy and attribute tables of a database.
StoredRules(d) ==
  [f \in {"policies", "policy_conditions", "field_policies", "field_policy_conditions",
          "user_attributes", "resource_attributes", "field_attributes",
          "environment_attributes"} |-> d[f]]

\* C26: a read-only evaluation that overlaps with an administrative write
\* never changes the stored policies and attributes: no step in which
\* checkAccess or evaluateFieldAccess closes a database handle replaces what
\* a write committed with the older snapshot the handle holds.
C26_EvaluationNeverOverwrites ==
  [][\A w \in Workers :
       (CheckAccess(w) \/ GetFieldPoliciesClose(w) \/ EvaluateFieldAccessResume(w))
         => StoredRules(file') = StoredRules(file)]_vars

\* The first policy of the last evaluateFieldAccess, in the order it was
\* given them, that is a matching mask policy.
FirstMatchingMask ==
  LET i == CHOOSE k \in 1..Len(last.order) :
             /\ last.order[k] \in MatchingWith({"mask"})
             /\ \A h \in 1..(k - 1) : last.order[h] \notin MatchingWith({"mask"})
  IN last.order[i]

\* C27: when mask policies match and no deny or redact policy does,
\* evaluateFieldAccess returns the first matching mask policy of the
\* priority-descending order and its mask_value; a matching mask policy
\* further down does not replace them.
C27_FirstMaskWins ==
  (LastFieldFound /\ MatchingWith({"mask"}) # {} /\ MatchingWith({"deny", "redact"}) = {}) =>
    /\ last.result.policyId = FirstMatchingMask.id
    /\ last.result.maskValue = FirstMatchingMask.mask_value

\* C28: policies of equal priority are evaluated in the order they were
\* created in, and the database, the request and the clock of a call
\* determine what it returns: the decision, the policy cited and the mask
\* value are the same in every run.
C28_DeterministicTieOrder ==
  /\ LastFound =>
        \A i, k \in 1..Len(last.order) :
          LET first == PolicyById(last.db, last.order[i])
              second == PolicyById(last.db, last.order[k]) IN
          (i < k /\ first.priority = second.priority) => first.created_at <= second.created_at
  /\ (LastFound \/ LastFieldFound) =>
        \A o \in Outcomes(last.op, last.db, last.job, last.clock) :
          /\ o.outcome = last.outcome
          /\ o.result = last.result

\* A string parses as a number: it is not empty or blank, and it is a numeral.
ParsesAsNumber(s) == Trim(s) # <<>> /\ Number(s) # NaN

\* The value of the user attribute a condition of the last call reads.
LastUserAttribute ==
  (CHOOSE a \in last.db.user_attributes :
     a.user_id = last.job.userId /\ a.attribute_name = last.job.condition.attribute_name)
    .attribute_value

\* The last call evaluated greater_than or less_than, in the resource or the
\* field engine, on an attribute the user has.
LastIsNumericComparison ==
  /\ LastIsCondition
  /\ last.job.engine \in {"resource", "field"}
  /\ last.job.condition.subject_type = "user"
  /\ last.job.condition.operator \in {"greater_than", "less_than"}
  /\ \E a \in last.db.user_attributes :
        a.user_id = last.job.userId /\ a.attribute_name = last.job.condition.attribute_name

\* C29: greater_than and less_than are false when the actual or the expected
\* value does not parse as a number, the empty and the blank string
\* included, and are the strict comparison of the two numbers otherwise.
C29_NumericComparisonFailsClosed ==
  LastIsNumericComparison =>
    LET actual == LastUserAttribute
        expected == last.job.condition.value IN
    /\ last.outcome = "returned"
    /\ last.result =
         IF ~ParsesAsNumber(actual) \/ ~ParsesAsNumber(expected) THEN False
         ELSE IF last.job.condition.operator = "greater_than"
         THEN Bool(Number(actual)[1] > Number(expected)[1])
         ELSE Bool(Number(actual)[1] < Number(expected)[1])

\* The active resource policies of d that have no condition rows.
Conditionless(d) ==
  {p \in ActivePolicies(d) : \A c \in d.policy_conditions : c.policy_id # p.id}

WithoutConditionless(d) == [d EXCEPT !.policies = @ \ Conditionless(d)]

====
